---------------------------- MODULE Spec2Model ----------------------------
(***************************************************************************)
(* Model of the core of Av1an (emrakyz/Av1an): the target-quality search   *)
(* (av1an-core/src/target_quality.rs), the chunk planner and the encode    *)
(* driver (crates/av1an-core/src/context.rs) with its progress accounting  *)
(* (av1an-core/src/progress_bar.rs).                                       *)
(*                                                                         *)
(* Numbers.  Quantizers are u32 in the source.  TLC's integers are 32-bit  *)
(* signed, so the unsigned type is modelled with the modulus U32Modulus    *)
(* (wrap-around in a release build, a panic in a build with overflow       *)
(* checks).  Scores are f64 in the source; the model uses integer scores   *)
(* and exact rational arithmetic for the interpolation.                    *)
(***************************************************************************)
EXTENDS Integers, Sequences, FiniteSets, TLC

(***************************************************************************)
(* Bounds of the model.                                                    *)
(***************************************************************************)
MaxQ == 9          \* quantizer limits min_q <= max_q are drawn from 0..MaxQ
MaxProbes == 5     \* probe budgets N are drawn from 1..MaxProbes
MaxDev == 3        \* oracle scores are drawn from target-MaxDev..target+MaxDev
U32Modulus == 256  \* modulus standing for 2^32 of the u32 quantizer type
MaxFrames == 4     \* planner inputs have F in 1..MaxFrames frames
NumChunks == 3     \* interrupted runs have 1..NumChunks scenes (of 1 frame)
RetryChunks == 2   \* single runs have 1..RetryChunks scenes
ChunkLen == 2      \* frames of each scene of a single run
MaxWorkers == 2    \* args.workers is drawn from 1..MaxWorkers
MaxTries == 2      \* args.max_tries is drawn from 1..MaxTries
MaxRuns == 2       \* process starts on one temp directory
AudioChunks == 2   \* runs with an audio thread have 1..AudioChunks scenes
UsizeMax == 255    \* stands for usize::MAX = 2^64 - 1
MaxPrompts == 3    \* prompts of one call of confirm
MaxKeyframes == 2  \* forced key frames of a run whose injection is examined
MaxLines == 3      \* lines of the encoder's stderr read in one call of create_pipes

(***************************************************************************)
(* Program constants.                                                      *)
(***************************************************************************)
SCORE_TOLERANCE_INV == 100   \* const SCORE_TOLERANCE: f64 = 0.01

VARIABLES
    \* ---- target-quality search (per_shot_target_quality) ----
    tq,                       \* the TargetQuality settings and the oracle
    lower_quantizer_limit,
    upper_quantizer_limit,
    quantizer_score_history,  \* Vec<(u32, f64)> as the code holds it
    probe_log,                \* every probe run, in the order it was run
    skip,                     \* SkipProbingReason of the exit taken
    tq_cq,                    \* chunk.tq_cq; NoQ is None
    tq_pc,                    \* "loop" | "done" | "crashed" | "panic" | "off"
    \* ---- encode driver (Av1anContext, Broker, progress bar) ----
    args,                     \* EncodeArgs and what the input and encoders do
    disk,                     \* the temp directory
    done,                     \* get_done(): the in-memory DoneJson
    frames,                   \* self.frames
    scenes,                   \* the scene list split_routine returns
    task_queue,               \* Broker.task_queue: tasks not yet handed out
    worker,                   \* the worker threads of Broker::encoding_loop
    fatal,                    \* a message is in the channel (tx, rx)
    position,                 \* position of the progress bar
    main_pc,                  \* where the main thread is
    runs,                     \* process starts so far on this temp directory
    tally,                    \* bookkeeping of the current process
    inserted,                 \* over all processes: records inserted per name
    audio,                    \* the audio thread of encode_file
    vspipe_cache,             \* the warm-up thread of encode_file:
                              \* "None" | "running" | "terminated"
    \* ---- single calls, each with its inputs ----
    pipes,                    \* one return of create_pipes
    cli                       \* parse_cli (main.rs)

tqVars == <<tq, lower_quantizer_limit, upper_quantizer_limit,
            quantizer_score_history, probe_log, skip, tq_cq, tq_pc>>

runVars == <<args, disk, done, frames, scenes, task_queue, worker, fatal,
             position, main_pc, runs, tally, inserted, audio, vspipe_cache>>

auxVars == <<pipes, cli>>

vars == <<tqVars, runVars, auxVars>>

NoQ == 0 - 1

Abs(x) == IF x < 0 THEN 0 - x ELSE x

Min2(a, b) == IF a < b THEN a ELSE b

Max2(a, b) == IF a > b THEN a ELSE b

U32Max == U32Modulus - 1

(***************************************************************************)
(* Rust's stable sort_by_key / sort_by, the keys given as a sequence       *)
(* beside s: an element's place is the number of elements with a smaller   *)
(* key, or an equal key and a smaller index.                               *)
(***************************************************************************)
StableSortBy(s, key) ==
    LET n == Len(s)
        pos(i) == 1 + Cardinality({j \in 1..n :
                        \/ key[j] < key[i]
                        \/ (key[j] = key[i] /\ j < i)})
    IN  [p \in 1..n |-> s[CHOOSE i \in 1..n : pos(i) = p]]

\* sort_by_key(|(quantizer, _)| *quantizer)
SortByQuantizer(s) == StableSortBy(s, [i \in 1..Len(s) |-> s[i][1]])

\* sort_by(|a, b| a.1.partial_cmp(&b.1))
SortByScore(s) == StableSortBy(s, [i \in 1..Len(s) |-> s[i][2]])

(***************************************************************************)
(* within_tolerance: (score - target).abs() / target < 0.01, for a         *)
(* positive target.                                                        *)
(***************************************************************************)
within_tolerance(score, target) ==
    SCORE_TOLERANCE_INV * Abs(score - target) < target

(***************************************************************************)
(* (lower + upper) / 2 in u32.                                             *)
(***************************************************************************)
Midpoint(lo, hi) == ((lo + hi) % U32Modulus) \div 2

(***************************************************************************)
(* f64::round (half away from zero) followed by `as u32` (saturating; a    *)
(* NaN casts to 0) of the rational num/den, den >= 0.                      *)
(***************************************************************************)
RoundToU32(num, den) ==
    IF den = 0 \/ num <= 0 THEN 0
    ELSE Min2((2 * num + den) \div (2 * den), U32Max)

Clamp(x, lo, hi) == IF x < lo THEN lo ELSE IF x > hi THEN hi ELSE x

(***************************************************************************)
(* splines::Spline::sample.  keys: sequence of [t, value], sorted by t.    *)
(* search_lower_cp gives the key at or below t (0: None); t at or past the *)
(* last key, or before the first, cannot be sampled.                       *)
(***************************************************************************)
search_lower_cp(keys, t) ==
    LET len == Len(keys)
        below == Cardinality({i \in 1..len : keys[i].t < t})
        eq == {i \in 1..len : keys[i].t = t}
    IN  IF len < 2 THEN 0
        ELSE IF eq # {}
             THEN LET i == CHOOSE k \in eq : \A m \in eq : k <= m
                  IN  IF i = len THEN 0 ELSE i
        ELSE IF below >= len \/ below = 0 THEN 0
        ELSE below

\* Interpolation::Linear: lerp(nt, cp0.value, cp1.value), nt = (t-t0)/(t1-t0)
SampleLinear(keys, k, t) ==
    LET cp0 == keys[k]
        cp1 == keys[k + 1]
        n == t - cp0.t
        d == cp1.t - cp0.t
    IN  [some |-> TRUE, num |-> cp0.value * (d - n) + cp1.value * n, den |-> d]

\* Interpolation::CatmullRom: cubic Hermite through cp0, cp1 with the
\* tangents (cp1 - cpm0) / (t1 - tm0) and (cpm1 - cp0) / (tm1 - t0); it needs
\* a key before cp0 and one after cp1.
SampleCatmullRom(keys, k, t) ==
    IF k = 1 \/ k >= Len(keys) - 1
    THEN [some |-> FALSE, num |-> 0, den |-> 1]
    ELSE LET cp0 == keys[k]
             cp1 == keys[k + 1]
             cpm0 == keys[k - 1]
             cpm1 == keys[k + 2]
             n == t - cp0.t
             d == cp1.t - cp0.t
             m0n == cp1.value - cpm0.value
             m0d == cp1.t - cpm0.t
             m1n == cpm1.value - cp0.value
             m1d == cpm1.t - cp0.t
             n2 == n * n
             n3 == n2 * n
             d2 == d * d
             d3 == d2 * d
             h00 == 2 * n3 - 3 * n2 * d + d3
             h10 == n3 - 2 * n2 * d + n * d2
             h01 == 3 * n2 * d - 2 * n3
             h11 == n3 - n2 * d
         IN  [some |-> TRUE,
              num |-> cp0.value * h00 * m0d * m1d + m0n * h10 * m1d
                      + cp1.value * h01 * m0d * m1d + m1n * h11 * m0d,
              den |-> d3 * m0d * m1d]

SplineSample(keys, interpolation, t) ==
    LET k == search_lower_cp(keys, t)
    IN  IF k = 0 THEN [some |-> FALSE, num |-> 0, den |-> 1]
        ELSE IF interpolation = "Linear" THEN SampleLinear(keys, k, t)
        ELSE SampleCatmullRom(keys, k, t)

(***************************************************************************)
(* predict_quantizer                                                       *)
(***************************************************************************)
predict_quantizer(lo, hi, history, target) ==
    IF Len(history) < 2 THEN Midpoint(lo, hi)
    ELSE LET sorted_quantizer_score_history == SortByQuantizer(history)
             quantizer_score_map ==
                 SortByScore(sorted_quantizer_score_history)
             keys == [i \in 1..Len(quantizer_score_map) |->
                         [t |-> quantizer_score_map[i][2],
                          value |-> quantizer_score_map[i][1]]]
             interpolation ==
                 IF Len(sorted_quantizer_score_history) = 2
                 THEN "Linear" ELSE "CatmullRom"
             s == SplineSample(keys, interpolation, target)
         IN  IF s.some THEN Clamp(RoundToU32(s.num, s.den), lo, hi)
             ELSE Midpoint(lo, hi)

(***************************************************************************)
(* log_probes sorts the history it is handed by quantizer, in place.       *)
(***************************************************************************)
log_probes(history) == SortByQuantizer(history)

(***************************************************************************)
(* The final selection (lines 187-205).  Iterator::max_by_key returns the  *)
(* last maximum, Iterator::min_by the first minimum, in iteration order.   *)
(***************************************************************************)
MaxByKeyQuantizer(s) ==
    LET n == Len(s)
        i == CHOOSE k \in 1..n :
                 /\ \A m \in 1..n : s[m][1] <= s[k][1]
                 /\ \A m \in (k + 1)..n : s[m][1] < s[k][1]
    IN  s[i]

\* min_by replaced by a selection that keeps the last of equally near probes
MinByDifference_LastMinimum(s, target) ==
    LET n == Len(s)
        i == CHOOSE k \in 1..n :
                 /\ \A m \in 1..n : Abs(s[k][2] - target) <= Abs(s[m][2] - target)
                 /\ \A m \in (k + 1)..n : Abs(s[k][2] - target) < Abs(s[m][2] - target)
    IN  s[i]

MinByDifference(s, target) ==
    LET n == Len(s)
        i == CHOOSE k \in 1..n :
                 /\ \A m \in 1..n : Abs(s[k][2] - target) <= Abs(s[m][2] - target)
                 /\ \A m \in 1..(k - 1) : Abs(s[k][2] - target) < Abs(s[m][2] - target)
    IN  s[i]

\* the probe of the lowest quantizer returned
final_quantizer_score_First(history, target) == history[1]

final_quantizer_score(history, target) ==
    LET history_within_tolerance ==
            SelectSeq(history, LAMBDA e : within_tolerance(e[2], target))
    IN  IF history_within_tolerance # <<>>
        THEN MaxByKeyQuantizer(history_within_tolerance)
        ELSE MinByDifference(history, target)

(***************************************************************************)
(* The score oracle: vmaf_probe followed by read_weighted_vmaf.  "any" is  *)
(* an arbitrary oracle that is monotonically non-increasing in q, drawn    *)
(* probe by probe; "linear100" is score(q) = 100 - q.                      *)
(***************************************************************************)
OracleScores(q) ==
    IF tq.oracle = "linear100" THEN {100 - q}
    ELSE {s \in (tq.target - MaxDev)..(tq.target + MaxDev) :
            \A i \in 1..Len(probe_log) :
                /\ probe_log[i][1] < q => probe_log[i][2] >= s
                /\ probe_log[i][1] > q => probe_log[i][2] <= s}

Probed(q) == \E i \in 1..Len(quantizer_score_history) :
                 quantizer_score_history[i][1] = q

next_quantizer ==
    predict_quantizer(lower_quantizer_limit, upper_quantizer_limit,
                      quantizer_score_history, tq.target)

Targets == {80, 250}

TQSettings ==
    {[min_q |-> lo, max_q |-> hi, probes |-> n, target |-> t,
      oracle |-> "any", overflow_checks |-> b] :
        lo \in 0..MaxQ, hi \in 0..MaxQ, n \in 1..MaxProbes,
        t \in Targets, b \in BOOLEAN}

\* qp_range, --probes and --target-quality of scenario S3
S3Settings ==
    {[min_q |-> 10, max_q |-> 50, probes |-> 4, target |-> 80,
      oracle |-> "linear100", overflow_checks |-> b] : b \in BOOLEAN}

(***************************************************************************)
(* The chunk planner and the encode driver: data.                          *)
(*                                                                         *)
(* A scene is [start_frame, end_frame].  A task is [index, input,          *)
(* start_frame, end_frame], where input is the file the task reads, given  *)
(* by the range <<x, y>> of source frames the file holds: <<0, F>> is the   *)
(* source itself (or the script wrapping it), any other range a segment    *)
(* file of <temp>/split.                                                   *)
(***************************************************************************)
Scene(s, e) == [start_frame |-> s, end_frame |-> e]

Task(i, in, s, e) == [index |-> i, input |-> in, start_frame |-> s, end_frame |-> e]

NoTask == Task(0 - 1, <<0, 0>>, 0, 0)

\* Task::frames
Frames(task) == task.end_frame - task.start_frame

\* Task::name: the zero-padded index, which stands for the name here
Name(task) == task.index

\* the elements of a set of integers in ascending order
SortedSeq(S) ==
    [i \in 1..Cardinality(S) |->
        CHOOSE x \in S : Cardinality({y \in S : y < x}) = i - 1]

\* the scene list contiguous from 0 to F with the given inner cuts
ScenesFromCuts(F, cuts) ==
    LET b == SortedSeq({0, F} \cup cuts)
    IN  [i \in 1..(Len(b) - 1) |-> Scene(b[i], b[i + 1])]

RECURSIVE Flatten(_)
Flatten(ss) == IF ss = <<>> THEN <<>> ELSE Head(ss) \o Flatten(Tail(ss))

\* a forced key frame that is ignored whatever the scenes
ForceKeyframe_Ignored(list, kf) == list

\* a forced key frame that splits the scene it starts as well
ForceKeyframe_NoSkip(list, kf) ==
    LET hits == {i \in 1..Len(list) :
                    list[i].start_frame <= kf /\ kf < list[i].end_frame}
    IN  IF hits = {} THEN list
        ELSE LET scene_pos == CHOOSE i \in hits : \A j \in hits : i <= j
                 s == list[scene_pos]
             IN  SubSeq(list, 1, scene_pos - 1)
                 \o <<Scene(s.start_frame, kf), Scene(kf, s.end_frame)>>
                 \o SubSeq(list, scene_pos + 1, Len(list))

(***************************************************************************)
(* split_routine: forced keyframes (lines 875-897).  One keyframe splits   *)
(* the first scene that contains it, unless it is that scene's start; a    *)
(* keyframe no scene contains is ignored with a warning.                   *)
(***************************************************************************)
ForceKeyframe(list, kf) ==
    LET hits == {i \in 1..Len(list) :
                    list[i].start_frame <= kf /\ kf < list[i].end_frame}
    IN  IF hits = {} THEN list
        ELSE LET scene_pos == CHOOSE i \in hits : \A j \in hits : i <= j
                 s == list[scene_pos]
             IN  IF kf = s.start_frame THEN list
                 ELSE SubSeq(list, 1, scene_pos - 1)
                      \o <<Scene(s.start_frame, kf), Scene(kf, s.end_frame)>>
                      \o SubSeq(list, scene_pos + 1, Len(list))

RECURSIVE ForceKeyframes(_, _)
ForceKeyframes(list, kfs) ==
    IF kfs = <<>> THEN list
    ELSE ForceKeyframes(ForceKeyframe(list, Head(kfs)), Tail(kfs))

(***************************************************************************)
(* extra_splits (split.rs is not part of the sources at hand; after the    *)
(* specification, 4.C): a scene longer than the cap is subdivided evenly   *)
(* into the least number of equal-sized sub-scenes that respect the cap.   *)
(***************************************************************************)
ExtraSplitScene(s, split_len) ==
    LET distance == s.end_frame - s.start_frame
        pieces == (distance + split_len - 1) \div split_len
    IN  IF distance <= split_len THEN <<s>>
        ELSE [n \in 1..pieces |->
                 Scene(s.start_frame + (distance * (n - 1)) \div pieces,
                       s.start_frame + (distance * n) \div pieces)]

extra_splits(list, split_len) ==
    Flatten([i \in 1..Len(list) |-> ExtraSplitScene(list[i], split_len)])

(***************************************************************************)
(* segment (split.rs, not part of the sources at hand; after the           *)
(* specification, 4.C: "segment boundaries are approximate (key-frame      *)
(* only)"): the muxer copies the stream and starts a new file at the first *)
(* key frame at or after each requested frame.  The result is the list of  *)
(* segment files in file-name order, each given by its source range.       *)
(***************************************************************************)
SegmentCuts(keyframes, splits) ==
    {k \in keyframes : k > 0 /\ \E s \in splits :
        s <= k /\ \A k2 \in keyframes : k2 >= s => k <= k2}

segment(F, keyframes, splits) ==
    LET b == SortedSeq({0, F} \cup SegmentCuts(keyframes, splits))
    IN  [i \in 1..(Len(b) - 1) |-> <<b[i], b[i + 1]>>]

\* segment leaves its files in <temp>/split: a file of the same name is
\* replaced, any other file stays
WriteSplit(old, files) ==
    files \o SubSeq(old, Len(files) + 1, Len(old))

\* num_frames of a segment file
num_frames(file) == file[2] - file[1]

(***************************************************************************)
(* The four planning strategies (lines 1019-1156).                         *)
(***************************************************************************)
\* create_vs_task over every scene: the script is asked for [start, end-1]
create_video_queue_vs(list, F) ==
    [i \in 1..Len(list) |->
        Task(i - 1, <<0, F>>, list[i].start_frame, list[i].end_frame)]

\* create_select_task over every scene
create_video_queue_select(list, F) ==
    [i \in 1..Len(list) |->
        Task(i - 1, <<0, F>>, list[i].start_frame, list[i].end_frame)]

\* the frames segment is asked to cut at: every scene start but the first
SegmentSplits(list) == {list[i].start_frame : i \in 2..Len(list)}

\* chunks that keep the source range of their file
create_video_queue_segment_Source(queue_files) ==
    [i \in 1..Len(queue_files) |->
        Task(i - 1, queue_files[i], queue_files[i][1], queue_files[i][2])]

\* create_task_from_segment over every file of <temp>/split
create_video_queue_segment(queue_files) ==
    [i \in 1..Len(queue_files) |->
        Task(i - 1, queue_files[i], 0, num_frames(queue_files[i]))]

\* to_split: the source key frames that are scene starts, ascending
ToSplit(list, keyframes) ==
    SortedSeq({kf \in keyframes : \E i \in 1..Len(list) : list[i].start_frame = kf})

\* the scenes of one segment file, in frames of the source
HybridWindow_Absolute(list, file, x, y) ==
    LET inside == SelectSeq(list, LAMBDA s :
                      s.start_frame >= x /\ s.end_frame <= y
                      /\ s.start_frame < s.end_frame)
    IN  [j \in 1..Len(inside) |->
            <<file, inside[j].start_frame, inside[j].end_frame>>]

\* the scenes of one segment file, relative to the file's first frame x
HybridWindow(list, file, x, y) ==
    LET inside == SelectSeq(list, LAMBDA s :
                      s.start_frame >= x /\ s.end_frame <= y
                      /\ s.start_frame < s.end_frame)
    IN  [j \in 1..Len(inside) |->
            <<file, inside[j].start_frame - x, inside[j].end_frame - x>>]

create_video_queue_hybrid(list, F, to_split, queue_files) ==
    LET kf_list == to_split \o <<F>>
        zipped == Min2(Len(queue_files), Len(kf_list) - 1)
        segments == Flatten([i \in 1..zipped |->
                       HybridWindow(list, queue_files[i], kf_list[i], kf_list[i + 1])])
    IN  [i \in 1..Len(segments) |->
            Task(i - 1, segments[i][1], segments[i][2], segments[i][3])]

(***************************************************************************)
(* create_encoding_queue: the reordering (lines 810-821).  The unstable    *)
(* sort may leave tasks of equal length in any order, and the shuffle may  *)
(* leave any order: the operator gives every queue the code may return.    *)
(***************************************************************************)
Perms(n) ==
    {p \in [1..n -> 1..n] : \A i, j \in 1..n : p[i] = p[j] => i = j}

Reorder(tasks, p) == [i \in 1..Len(tasks) |-> tasks[p[i]]]

\* no sort at all
IsOrdered_Unsorted(q, task_order) == TRUE

IsOrdered(q, task_order) ==
    CASE task_order = "LongestFirst" ->
            \A i \in 1..(Len(q) - 1) : Frames(q[i]) >= Frames(q[i + 1])
      [] task_order = "ShortestFirst" ->
            \A i \in 1..(Len(q) - 1) : Frames(q[i]) <= Frames(q[i + 1])
      [] task_order = "Sequential" ->
            \A i \in 1..(Len(q) - 1) : q[i].index < q[i + 1].index
      [] OTHER -> TRUE

Orderings(tasks, task_order) ==
    {q \in {Reorder(tasks, p) : p \in Perms(Len(tasks))} :
        IsOrdered(q, task_order)}

\* the files segment has to leave in <temp>/split for the chosen strategy
SplitFiles(a, list, F, old) ==
    CASE ~a.split_ok -> old
      [] a.input = "Video" /\ a.task_method = "Segment" ->
            WriteSplit(old, segment(F, a.keyframes, SegmentSplits(list)))
      [] a.input = "Video" /\ a.task_method = "Hybrid" ->
            WriteSplit(old, segment(F, a.keyframes,
                {ToSplit(list, a.keyframes)[i] :
                    i \in 2..Len(ToSplit(list, a.keyframes))}))
      [] OTHER -> old

\* the tasks of the chosen strategy, before the reordering
StrategyTasks(a, list, F, queue_files) ==
    CASE a.input = "VapourSynth" -> create_video_queue_vs(list, F)
      [] a.input = "Video" /\ a.task_method = "Select" ->
            create_video_queue_select(list, F)
      [] a.input = "Video" /\ a.task_method = "Segment" ->
            create_video_queue_segment(queue_files)
      [] a.input = "Video" /\ a.task_method = "Hybrid" ->
            create_video_queue_hybrid(list, F, ToSplit(list, a.keyframes), queue_files)
      [] OTHER -> create_video_queue_vs(list, F)

create_encoding_queue(a, list, F, queue_files) ==
    Orderings(StrategyTasks(a, list, F, queue_files), a.task_order)

(***************************************************************************)
(* The temp directory and the done ledger.                                 *)
(***************************************************************************)
NoFile == <<>>

File(content) == <<content>>

Content(file) == file[1]

\* DoneJson; done maps a chunk name to the frames of its DoneChunk
Ledger(f, d, a) == [valid |-> TRUE, frames |-> f, done |-> d, audio_done |-> a]

EmptyLedger == Ledger(0, {}, FALSE)

\* done.json after File::create and before write_all: an empty file
Truncated == [valid |-> FALSE, frames |-> 0, done |-> {}, audio_done |-> FALSE]

EmptyTemp == [done_json |-> NoFile, tasks_json |-> NoFile, scenes_json |-> NoFile,
              split |-> <<>>, encode |-> {}]

\* DashMap::contains_key
contains_key(ledger, name) == \E e \in ledger.done : e[1] = name

\* DashMap::insert: a record of the same name is replaced
insert(ledger, name, n) ==
    [ledger EXCEPT !.done = {e \in @ : e[1] # name} \cup {<<name, n>>}]

DoneNames(ledger) == {e[1] : e \in ledger.done}

\* the tasks a resumed run keeps: all of them, done or not
retain_NoFilter(tasks, ledger) == tasks

\* the tasks a resumed run keeps: those that are done
retain_KeepDone(tasks, ledger) ==
    SelectSeq(tasks, LAMBDA task : contains_key(ledger, Name(task)))

\* tasks.retain(|task| !done.done.contains_key(&task.name()))
retain(tasks, ledger) ==
    SelectSeq(tasks, LAMBDA task : ~contains_key(ledger, Name(task)))

\* initial_frames: the sum of the frames of the records of the ledger
RECURSIVE SumFrames(_)
SumFrames(entries) ==
    IF entries = {} THEN 0
    ELSE LET e == CHOOSE x \in entries : TRUE
         IN  e[2] + SumFrames(entries \ {e})

\* u64::saturating_sub
saturating_sub(a, b) == IF a > b THEN a - b ELSE 0

(***************************************************************************)
(* Worker threads and bookkeeping.                                         *)
(***************************************************************************)
Workers == 1..MaxWorkers

\* a worker: where it is, the task it holds, the pass and try of the
\* broker's loops, the frame counter of create_pipes, the position dec_bar
\* read; and, for the task it holds, the advance and rewind deltas emitted
\* and the number of times create_pipes returned a crash
WorkerOff == [pc |-> "off", task |-> NoTask, current_pass |-> 0, try |-> 0,
              frame |-> 0, read |-> 0, advanced |-> 0, rewound |-> 0,
              crashed |-> 0]

\* of the current process: the advance and rewind deltas emitted in all; per
\* chunk name the crashes counted for the scenario's encoder, the times the
\* chunk was handed to a worker and the records inserted into the ledger;
\* the chunks that ran out of tries; the names of the ledger loaded
\* what the concatenation did: result is "none" | "Err" | "Ok", valid tells
\* that the concatenator wrote a valid output, exists that a file is at the
\* output path afterwards, keep is the keep flag
NoConcat == [result |-> "none", valid |-> FALSE, exists |-> FALSE, keep |-> FALSE]

NewTally(n, loaded) ==
    [advance  |-> 0,
     rewind   |-> 0,
     crashes  |-> [c \in 0..(n - 1) |-> 0],
     dispatched |-> [c \in 0..(n - 1) |-> 0],
     inserts  |-> [c \in 0..(n - 1) |-> 0],
     exhausted |-> {},
     loaded   |-> loaded,
     concat   |-> NoConcat]

NoTally == NewTally(0, {})

\* over all processes: the number of records inserted per chunk name
NoneInserted == [c \in {} |-> 0]

Count(h, c) == IF c \in DOMAIN h THEN h[c] ELSE 0

Counted(h, c) == [x \in DOMAIN h \cup {c} |-> Count(h, x) + (IF x = c THEN 1 ELSE 0)]

\* the audio thread: pc is "off" | "encode" | "create" | "serialise" |
\* "write" | "done"; buf is the serialised ledger it is about to write
AudioOff == [pc |-> "off", buf |-> EmptyLedger]

\* the state of a process that has not started
ProcessOff ==
    /\ done = EmptyLedger
    /\ frames = 0
    /\ scenes = <<>>
    /\ task_queue = <<>>
    /\ worker = [w \in Workers |-> WorkerOff]
    /\ fatal = FALSE
    /\ position = 0
    /\ tally = NoTally
    /\ audio = AudioOff
    /\ vspipe_cache = "None"

\* the driver is not part of the run
RunOff ==
    /\ args = [input |-> "VapourSynth"]
    /\ disk = EmptyTemp
    /\ ProcessOff
    /\ main_pc = "off"
    /\ runs = 0
    /\ inserted = NoneInserted

\* no single call is part of the run
PipesOff == [pc |-> "off"]

CliOff == [pc |-> "off"]

AuxOff == pipes = PipesOff /\ cli = CliOff

\* the target-quality search is not part of the run
TQOff ==
    /\ tq = [min_q |-> 0, max_q |-> 0, probes |-> 1, target |-> 80,
             oracle |-> "any", overflow_checks |-> FALSE]
    /\ lower_quantizer_limit = 0
    /\ upper_quantizer_limit = 0
    /\ quantizer_score_history = <<>>
    /\ probe_log = <<>>
    /\ skip = "Unset"
    /\ tq_cq = NoQ
    /\ tq_pc = "off"

InitTQ ==
    /\ tq \in {s \in TQSettings : s.min_q <= s.max_q} \cup S3Settings
    /\ lower_quantizer_limit = tq.min_q
    /\ upper_quantizer_limit = tq.max_q
    /\ quantizer_score_history = <<>>
    /\ probe_log = <<>>
    /\ skip = "Unset"
    /\ tq_cq = NoQ
    /\ tq_pc = "loop"
    /\ RunOff
    /\ AuxOff

\* log_probes given the history itself, not a clone of it
TQAlreadyProbed_InPlace ==
    /\ tq_pc = "loop"
    /\ Probed(next_quantizer)
    /\ skip' = "None"
    /\ quantizer_score_history' = log_probes(quantizer_score_history)
    /\ tq_cq' = final_quantizer_score(quantizer_score_history, tq.target)[1]
    /\ tq_pc' = "done"
    /\ UNCHANGED <<tq, lower_quantizer_limit, upper_quantizer_limit, probe_log>>
    /\ UNCHANGED <<runVars, auxVars>>

(***************************************************************************)
(* One iteration of the search loop that finds the predicted quantizer in  *)
(* the history: log_probes on a clone, break, final selection.             *)
(***************************************************************************)
TQAlreadyProbed ==
    /\ tq_pc = "loop"
    /\ Probed(next_quantizer)
    /\ skip' = "None"
    /\ tq_cq' = final_quantizer_score(quantizer_score_history, tq.target)[1]
    /\ tq_pc' = "done"
    /\ UNCHANGED <<tq, lower_quantizer_limit, upper_quantizer_limit,
                   quantizer_score_history, probe_log>>
    /\ UNCHANGED <<runVars, auxVars>>

\* the failed probe taken for the result of the search
TQProbeCrash_Returns ==
    /\ tq_pc = "loop"
    /\ ~Probed(next_quantizer)
    /\ tq_cq' = next_quantizer
    /\ tq_pc' = "crashed"
    /\ UNCHANGED <<tq, lower_quantizer_limit, upper_quantizer_limit,
                   quantizer_score_history, probe_log, skip>>
    /\ UNCHANGED <<runVars, auxVars>>

(***************************************************************************)
(* vmaf_probe or read_weighted_vmaf fails: `?` returns the error from      *)
(* per_shot_target_quality (lines 135-136) and from                        *)
(* per_shot_target_quality_routine (line 379), which leaves chunk.tq_cq.   *)
(***************************************************************************)
TQProbeCrash ==
    /\ tq_pc = "loop"
    /\ ~Probed(next_quantizer)
    /\ tq_pc' = "crashed"
    /\ UNCHANGED <<tq, lower_quantizer_limit, upper_quantizer_limit,
                   quantizer_score_history, probe_log, skip, tq_cq>>
    /\ UNCHANGED <<runVars, auxVars>>

(***************************************************************************)
(* An iteration whose probe ends the search: within tolerance, or the      *)
(* probe limit reached.                                                    *)
(***************************************************************************)
TQProbeStop ==
    /\ tq_pc = "loop"
    /\ ~Probed(next_quantizer)
    /\ \E score \in OracleScores(next_quantizer) :
         LET pushed == Append(quantizer_score_history, <<next_quantizer, score>>)
             score_within_tolerance == within_tolerance(score, tq.target)
         IN  /\ score_within_tolerance \/ Len(pushed) >= tq.probes
             /\ probe_log' = Append(probe_log, <<next_quantizer, score>>)
             /\ quantizer_score_history' = log_probes(pushed)
             /\ skip' = IF score_within_tolerance THEN "WithinTolerance"
                        ELSE "ProbeLimitReached"
             /\ tq_cq' = final_quantizer_score(log_probes(pushed), tq.target)[1]
             /\ tq_pc' = "done"
    /\ UNCHANGED <<tq, lower_quantizer_limit, upper_quantizer_limit>>
    /\ UNCHANGED <<runVars, auxVars>>

\* next_quantizer + 1 or next_quantizer - 1 leaves the u32 range
LimitOverflows(q, score) ==
    IF score > tq.target THEN q + 1 > U32Max ELSE q - 1 < 0

new_lower(q, score) ==
    IF score > tq.target
    THEN Min2((q + 1) % U32Modulus, upper_quantizer_limit)
    ELSE lower_quantizer_limit

\* the upper limit set to the probed quantizer itself
new_upper_NoDecrement(q, score) ==
    IF score > tq.target
    THEN upper_quantizer_limit
    ELSE Max2(q, lower_quantizer_limit)

new_upper(q, score) ==
    IF score > tq.target
    THEN upper_quantizer_limit
    ELSE Max2((q - 1) % U32Modulus, lower_quantizer_limit)

(***************************************************************************)
(* An iteration whose probe does not end the search: the limits are        *)
(* narrowed (lines 160-164) and checked (lines 167-184).                   *)
(***************************************************************************)
TQProbeContinue ==
    /\ tq_pc = "loop"
    /\ ~Probed(next_quantizer)
    /\ \E score \in OracleScores(next_quantizer) :
         LET q == next_quantizer
             pushed == Append(quantizer_score_history, <<q, score>>)
             lo == new_lower(q, score)
             hi == new_upper(q, score)
         IN  /\ ~within_tolerance(score, tq.target)
             /\ Len(pushed) < tq.probes
             /\ ~(tq.overflow_checks /\ LimitOverflows(q, score))
             /\ probe_log' = Append(probe_log, <<q, score>>)
             /\ lower_quantizer_limit' = lo
             /\ upper_quantizer_limit' = hi
             /\ IF lo > hi
                THEN /\ quantizer_score_history' = log_probes(pushed)
                     /\ skip' = IF score > tq.target THEN "QuantizerTooHigh"
                                ELSE "QuantizerTooLow"
                     /\ tq_cq' = final_quantizer_score(log_probes(pushed),
                                                       tq.target)[1]
                     /\ tq_pc' = "done"
                ELSE /\ quantizer_score_history' = pushed
                     /\ UNCHANGED <<skip, tq_cq, tq_pc>>
    /\ UNCHANGED tq
    /\ UNCHANGED <<runVars, auxVars>>

(***************************************************************************)
(* The same iteration in a build with overflow checks, when narrowing the  *)
(* limits overflows u32: the thread panics at line 161 or 163.             *)
(***************************************************************************)
TQPanic ==
    /\ tq_pc = "loop"
    /\ ~Probed(next_quantizer)
    /\ tq.overflow_checks
    /\ \E score \in OracleScores(next_quantizer) :
         /\ ~within_tolerance(score, tq.target)
         /\ Len(quantizer_score_history) + 1 < tq.probes
         /\ LimitOverflows(next_quantizer, score)
         /\ probe_log' = Append(probe_log, <<next_quantizer, score>>)
         /\ quantizer_score_history' =
                Append(quantizer_score_history, <<next_quantizer, score>>)
    /\ tq_pc' = "panic"
    /\ UNCHANGED <<tq, lower_quantizer_limit, upper_quantizer_limit, skip, tq_cq>>
    /\ UNCHANGED <<runVars, auxVars>>

NextTQ ==
    \/ TQAlreadyProbed
    \/ TQProbeCrash
    \/ TQProbeStop
    \/ TQProbeContinue
    \/ TQPanic

SpecTQ == InitTQ /\ [][NextTQ]_vars

(***************************************************************************)
(* Claims about the target-quality search.                                 *)
(***************************************************************************)
ProbeIndices == 1..Len(probe_log)

WithinToleranceProbes ==
    {i \in ProbeIndices : within_tolerance(probe_log[i][2], tq.target)}

Difference(i) == Abs(probe_log[i][2] - tq.target)

NearestProbes == {i \in ProbeIndices : \A j \in ProbeIndices :
                                           Difference(i) <= Difference(j)}

\* C1: for every monotone oracle, min_q <= max_q, N >= 1 and target, the
\* search never fails, runs at most N probes (it is over once N probes are
\* run) and returns a q with min_q <= q <= max_q.
C1_TerminatesInRange ==
    /\ tq_pc # "panic"
    /\ Len(probe_log) <= tq.probes
    /\ (tq_pc = "loop" => Len(probe_log) < tq.probes)
    /\ (tq_pc = "done" => tq.min_q <= tq_cq /\ tq_cq <= tq.max_q)

\* C2 as stated: when the search ends, the returned q is the largest q among
\* the probes within tolerance if there is one; otherwise it is the q of a
\* probe nearest the target, and of equally near probes the one with the
\* higher q.
C2_TieBrokenByHigherQ ==
    tq_pc = "done" =>
        IF WithinToleranceProbes # {}
        THEN /\ \E i \in WithinToleranceProbes : probe_log[i][1] = tq_cq
             /\ \A i \in WithinToleranceProbes : probe_log[i][1] <= tq_cq
        ELSE /\ \E i \in NearestProbes : probe_log[i][1] = tq_cq
             /\ \A i \in NearestProbes : probe_log[i][1] <= tq_cq

\* C2 as amended: when the search ends, the returned q is the largest q among
\* the probes within tolerance if there is one; otherwise it is the q of a
\* probe nearest the target, and of equally near probes the one probed first
\* when the search ended because the predicted quantizer had been probed
\* already, the one with the lower q when it ended in any other way.
C2_TieBrokenByHistoryOrder ==
    tq_pc = "done" =>
        IF WithinToleranceProbes # {}
        THEN /\ \E i \in WithinToleranceProbes : probe_log[i][1] = tq_cq
             /\ \A i \in WithinToleranceProbes : probe_log[i][1] <= tq_cq
        ELSE IF skip = "None"
        THEN \E i \in NearestProbes :
                 /\ probe_log[i][1] = tq_cq
                 /\ \A j \in NearestProbes : i <= j
        ELSE /\ \E i \in NearestProbes : probe_log[i][1] = tq_cq
             /\ \A i \in NearestProbes : tq_cq <= probe_log[i][1]

\* C2 witness: a search that ended with no probe within tolerance and two
\* probes equally near the target.
C2_Witness ==
    /\ tq_pc = "done"
    /\ WithinToleranceProbes = {}
    /\ Cardinality(NearestProbes) >= 2
    /\ \E i, j \in NearestProbes : probe_log[i][2] # probe_log[j][2]

IsS3 == tq \in S3Settings

\* C3 as stated: in scenario S3 the search probes q=30 (score 70), then q=19
\* (score 81, within tolerance) and ends after exactly two probes with q=19.
C3_S3EndsAtSecondProbe ==
    (IsS3 /\ tq_pc = "done") =>
        /\ probe_log = <<<<30, 70>>, <<19, 81>>>>
        /\ tq_cq = 19

\* C3 as amended: in scenario S3 the search probes q=30 first (score 70),
\* narrows the limits to (10,29), probes q=19 second (score 81, which is not
\* within tolerance: 1/80 >= 0.01), narrows the limits to (20,29), probes
\* q=20 third (score 80, within tolerance) and ends after exactly three
\* probes with q=20.
C3_S3EndsAtThirdProbe ==
    IsS3 =>
        /\ Len(probe_log) >= 1 => probe_log[1] = <<30, 70>>
        /\ Len(probe_log) = 1 =>
               /\ lower_quantizer_limit = 10
               /\ upper_quantizer_limit = 29
        /\ Len(probe_log) >= 2 =>
               /\ probe_log[2] = <<19, 81>>
               /\ ~within_tolerance(probe_log[2][2], tq.target)
        /\ Len(probe_log) = 2 =>
               /\ tq_pc # "done"
               /\ lower_quantizer_limit = 20
               /\ upper_quantizer_limit = 29
        /\ Len(probe_log) >= 3 =>
               /\ probe_log[3] = <<20, 80>>
               /\ within_tolerance(probe_log[3][2], tq.target)
        /\ tq_pc = "done" =>
               /\ Len(probe_log) = 3
               /\ skip = "WithinTolerance"
               /\ tq_cq = 20

\* C3 witness: the search of scenario S3 has ended.
C3_Witness == IsS3 /\ tq_pc = "done" /\ tq_cq # NoQ

(***************************************************************************)
(* The encode driver: one process after another on one temp directory.     *)
(* main_pc: "start" (process started, Av1anContext::new not yet run),      *)
(* "initialized", "split_done", "queued", "recv" (blocked in rx.recv()     *)
(* while the workers run), "finished" (the concatenator was invoked),      *)
(* "exit1" (exit(1) after a fatal signal), "error" (an Err or a panic      *)
(* ended the process), "killed".                                           *)
(***************************************************************************)
Methods == {[input |-> "VapourSynth", task_method |-> "LSMASH"],
            [input |-> "Video", task_method |-> "Select"],
            [input |-> "Video", task_method |-> "Segment"],
            [input |-> "Video", task_method |-> "Hybrid"]}

Orders == {"LongestFirst", "ShortestFirst", "Sequential", "Random"}

EncodeArgs(m, F, detected, keyframes, order, kfs, split_len, w, tries, passes, crashes, reports) ==
    [input |-> m.input, task_method |-> m.task_method, frames |-> F,
     detected |-> detected, keyframes |-> keyframes, task_order |-> order,
     force_keyframes |-> kfs, extra_splits_len |-> split_len,
     workers |-> w, max_tries |-> tries, passes |-> passes,
     crashes |-> crashes, reports |-> reports, resume |-> FALSE,
     scenes |-> "None", split_ok |-> TRUE, io |-> "Ok"]

\* the same run with --scenes naming an existing file that holds the scene
\* list and the frame count
WithScenesFile(a) == [a EXCEPT !.scenes = "Existing"]

\* the same run with a muxer that leaves no segment file in <temp>/split
WithSplitFailure(a) == [a EXCEPT !.split_ok = FALSE]

\* the same run on a temp directory where a create or a write of done.json
\* may fail
WithIoFailure(a) == [a EXCEPT !.io = "MayFail"]

\* a script input cut into n scenes of len frames, encoded in sequence
ScriptArgs(n, len, w, tries, passes, reports) ==
    EncodeArgs([input |-> "VapourSynth", task_method |-> "LSMASH"],
               n * len, ScenesFromCuts(n * len, {i * len : i \in 1..(n - 1)}),
               {0}, "Sequential", <<>>, 0, w, tries, passes, <<>>, reports)

\* runs that are interrupted and started again: scenes of one frame, one
\* pass, any crash, an encoder that has reported every frame when it succeeds
RunArgs ==
    {ScriptArgs(n, 1, w, tries, 1, "all") :
        n \in 1..NumChunks, w \in 1..MaxWorkers, tries \in 1..MaxTries}

\* single runs: one or two passes, any crash, any report of frames
RetryArgs ==
    {ScriptArgs(n, ChunkLen, w, tries, passes, "any") :
        n \in 1..RetryChunks, w \in 1..MaxWorkers, tries \in 1..MaxTries,
        passes \in 1..2}

\* scenario S4: two workers, four chunks of equal length, longest-first,
\* the third chunk (index 2) crashes twice and then succeeds, no other chunk
\* crashes
S4Args ==
    {EncodeArgs([input |-> "VapourSynth", task_method |-> "LSMASH"],
                4 * len, ScenesFromCuts(4 * len, {len, 2 * len, 3 * len}),
                {0}, "LongestFirst", <<>>, 0, 2, tries, 1, <<0, 0, 2, 0>>, "all") :
        len \in 1..2, tries \in 2..3}

\* runs with a video input: n scenes of one frame, every frame a key frame
\* of the source, at most n workers (more are never spawned), one pass,
\* any crash, max_tries 1
VideoArgsOf(n) ==
    {EncodeArgs(m, n, ScenesFromCuts(n, 1..(n - 1)), 0..(n - 1), "Sequential",
                <<>>, 0, w, 1, 1, <<>>, "all") :
        m \in {x \in Methods : x.input = "Video"}, w \in 1..n}

VideoArgs == UNION {VideoArgsOf(n) : n \in 1..AudioChunks}

\* runs with an audio thread: the select strategy, where done.json may
\* fail to be created or written; a strategy that reads the video through
\* a generated script; the segment and the hybrid strategy with a muxer
\* that leaves no file
AudioArgs ==
    LET select == {a \in VideoArgs : a.task_method = "Select"}
    IN  select
        \cup {[a EXCEPT !.task_method = "LSMASH"] : a \in select}
        \cup {WithIoFailure(a) : a \in select}
        \cup {WithSplitFailure(a) : a \in VideoArgs \ select}

\* inputs of the planner: every scene list of F frames, every set of source
\* key frames, every strategy and order
PlanArgsOf(F) ==
    {EncodeArgs(m, F, ScenesFromCuts(F, cuts),
                IF m.input = "Video" THEN {0} \cup kf ELSE {0},
                order, kfs, split_len, 1, 1, 1, <<>>, "any") :
        m \in Methods,
        cuts \in SUBSET (1..(F - 1)), kf \in SUBSET (1..(F - 1)),
        order \in Orders,
        kfs \in {<<>>, <<1>>, <<F>>, <<2, 1>>}, split_len \in {0, 2}}

\* the inputs of the scenarios S1 (no forced key frame) and S2 (forced key
\* frame 250): 1000 frames, detected scenes [0,400) and [400,1000), cap 300,
\* planned by a strategy whose chunks are the scenes
ScenarioArgs ==
    {EncodeArgs(m, 1000, <<Scene(0, 400), Scene(400, 1000)>>, {0},
                order, kfs, 300, 1, 1, 1, <<>>, "any") :
        m \in {x \in Methods : x.task_method \in {"LSMASH", "Select"}},
        order \in Orders, kfs \in {<<>>, <<250>>}}

\* the inputs of the segment scenario: 1000 frames, source key frames
\* {0,100,500,900}, detected scenes [0,100), [100,500), [500,900), [900,1000)
SegmentScenarioArgs ==
    {EncodeArgs([input |-> "Video", task_method |-> "Segment"], 1000,
                <<Scene(0, 100), Scene(100, 500), Scene(500, 900), Scene(900, 1000)>>,
                {0, 100, 500, 900}, order, <<>>, 0, 1, 1, 1, <<>>, "any") :
        order \in Orders}

\* the lists of at most MaxKeyframes forced key frames, each between 0 and F
KeyframeLists(F) == UNION {[1..n -> 0..F] : n \in 0..MaxKeyframes}

\* inputs of the injection of forced key frames: a script input, every
\* scene list of F frames, every list of forced key frames in any order and
\* with repetitions, with and without a cap of 2 frames
KeyframeArgsOf(F) ==
    {EncodeArgs([input |-> "VapourSynth", task_method |-> "LSMASH"],
                F, ScenesFromCuts(F, cuts), {0}, "Sequential", kfs, split_len,
                1, 1, 1, <<>>, "any") :
        cuts \in SUBSET (1..(F - 1)), kfs \in KeyframeLists(F),
        split_len \in {0, 2}}

KeyframeArgs == UNION {KeyframeArgsOf(F) : F \in 1..MaxFrames}

PlanArgs ==
    LET fresh == UNION {PlanArgsOf(F) : F \in 1..MaxFrames}
    IN  fresh \cup {WithScenesFile(a) : a \in fresh} \cup ScenarioArgs
        \cup SegmentScenarioArgs

InitRun ==
    /\ TQOff
    /\ AuxOff
    /\ args \in RunArgs
    /\ disk = EmptyTemp
    /\ ProcessOff
    /\ main_pc = "start"
    /\ runs = 1
    /\ inserted = NoneInserted

InitRetry ==
    /\ TQOff
    /\ AuxOff
    /\ args \in RetryArgs
    /\ disk = EmptyTemp
    /\ ProcessOff
    /\ main_pc = "start"
    /\ runs = 1
    /\ inserted = NoneInserted

InitS4 ==
    /\ TQOff
    /\ AuxOff
    /\ args \in S4Args
    /\ disk = EmptyTemp
    /\ ProcessOff
    /\ main_pc = "start"
    /\ runs = 1
    /\ inserted = NoneInserted

InitAudio ==
    /\ TQOff
    /\ AuxOff
    /\ args \in AudioArgs
    /\ disk = EmptyTemp
    /\ ProcessOff
    /\ main_pc = "start"
    /\ runs = 1
    /\ inserted = NoneInserted

InitDowngrade ==
    /\ TQOff
    /\ AuxOff
    /\ args \in AudioArgs \cup VideoArgs
    /\ disk = EmptyTemp
    /\ ProcessOff
    /\ main_pc = "start"
    /\ runs = 1
    /\ inserted = NoneInserted

InitPlan ==
    /\ TQOff
    /\ AuxOff
    /\ args \in PlanArgs
    /\ disk = EmptyTemp
    /\ ProcessOff
    /\ main_pc = "start"
    /\ runs = 1
    /\ inserted = NoneInserted

InitKeyframes ==
    /\ TQOff
    /\ AuxOff
    /\ args \in KeyframeArgs
    /\ disk = EmptyTemp
    /\ ProcessOff
    /\ main_pc = "start"
    /\ runs = 1
    /\ inserted = NoneInserted

(***************************************************************************)
(* Av1anContext::initialize (lines 107-191), with the resume flag of the   *)
(* command line, and the first statement of encode_file, which follows it: *)
(* the thread that runs vspipe on the script to fill the cache of the     *)
(* frame server (lines 201-235).                                          *)
(***************************************************************************)
\* lines 205-208
vspipe_cache_thread(input, task_method, resume) ==
    /\ input = "VapourSynth"
          \/ (input = "Video"
                 /\ task_method \in {"LSMASH", "FFMS2", "DGDECNV", "BESTSOURCE"})
    /\ ~resume

\* the main thread going on without the join
vspipe_cache_join_Skipped(thread) == TRUE

\* vspipe_cache.join() (lines 279-281) returns once the thread has
\* terminated; there is nothing to join when no thread was spawned
vspipe_cache_join(thread) == thread # "running"

\* the flag of the command line kept whatever the temp directory holds
resume_flag_AsRequested(requested, done_json_exists, tasks_json_exists) ==
    requested

\* self.args.resume after the match of lines 132-161: it is cleared unless
\* done.json and tasks.json both exist
resume_flag(requested, done_json_exists, tasks_json_exists) ==
    requested /\ done_json_exists /\ tasks_json_exists

\* what a create or a write of done.json may do: TRUE is success
IoOutcomes(io) == IF io = "MayFail" THEN BOOLEAN ELSE {TRUE}

initialize ==
    /\ main_pc = "start"
    /\ \E requested \in BOOLEAN, created \in IoOutcomes(args.io) :
         LET temp == IF ~requested THEN EmptyTemp ELSE disk
             done_json_exists == temp.done_json # NoFile
             tasks_json_exists == temp.tasks_json # NoFile
             resume == resume_flag(requested, done_json_exists, tasks_json_exists)
         IN  /\ args' = [args EXCEPT !.resume = resume]
             /\ IF resume /\ done_json_exists
                THEN IF ~Content(temp.done_json).valid
                     THEN \* serde_json::from_str fails
                          /\ main_pc' = "error"
                          /\ UNCHANGED <<disk, done, frames, tally>>
                     ELSE LET read == Content(temp.done_json)
                              n == IF read.frames = 0 THEN args.frames
                                   ELSE read.frames
                          IN  /\ done' = [read EXCEPT !.frames = n]
                              /\ frames' = n
                              /\ tally' = [tally EXCEPT !.loaded = DoneNames(read)]
                              /\ main_pc' = "initialized"
                              /\ UNCHANGED disk
                ELSE /\ done' = EmptyLedger
                     /\ IF created
                        THEN /\ disk' = [temp EXCEPT !.done_json = File(EmptyLedger)]
                             /\ main_pc' = "initialized"
                        ELSE \* File::create(&done_path).unwrap() panics
                             /\ disk' = temp
                             /\ main_pc' = "io_panic"
                     /\ UNCHANGED <<frames, tally>>
             /\ vspipe_cache' =
                    IF main_pc' = "initialized"
                       /\ vspipe_cache_thread(args.input, args.task_method, resume)
                    THEN "running"
                    ELSE "None"
    /\ UNCHANGED <<scenes, task_queue, worker, fatal, position, runs, inserted>>
    /\ UNCHANGED <<audio, tqVars, auxVars>>

\* extra splits never applied
with_extra_splits_Never(used_existing_cuts, split_len) == FALSE

\* extra splits applied to every scene list, read from a file or not
with_extra_splits_Always(used_existing_cuts, split_len) == split_len >= 1

\* lines 899-901: extra splits are applied to a scene list that was not
\* read from a file, when the cap is 1 or more
with_extra_splits(used_existing_cuts, split_len) ==
    ~used_existing_cuts /\ split_len >= 1

(***************************************************************************)
(* The warm-up thread: vspipe exits (command.status(), line 229) while the *)
(* main thread is between the spawn and the join.                          *)
(***************************************************************************)
vspipe_exit ==
    /\ main_pc \in {"initialized", "split_done", "queued"}
    /\ vspipe_cache = "running"
    /\ vspipe_cache' = "terminated"
    /\ UNCHANGED <<args, disk, done, frames, scenes, task_queue, worker, fatal,
                   position, main_pc, runs, tally, inserted>>
    /\ UNCHANGED <<audio, tqVars, auxVars>>

(***************************************************************************)
(* Av1anContext::split_routine (lines 852-917).  Scene detection returns   *)
(* args.detected; a resumed run reads scenes.json instead, and a run with  *)
(* --scenes naming an existing file reads that file (and writes it back).  *)
(***************************************************************************)
split_routine ==
    /\ main_pc = "initialized"
    /\ LET scene_file == IF args.scenes = "Existing"
                         THEN File([scenes |-> args.detected, frames |-> args.frames])
                         ELSE disk.scenes_json
           used_existing_cuts == args.scenes = "Existing" \/ args.resume
       IN  IF used_existing_cuts /\ scene_file = NoFile
           THEN \* read_scenes_from_file fails
                /\ main_pc' = "error"
                /\ UNCHANGED <<disk, done, frames, scenes>>
           ELSE LET read == IF used_existing_cuts THEN Content(scene_file)
                            ELSE [scenes |-> args.detected, frames |-> args.frames]
                    forced == ForceKeyframes(read.scenes, args.force_keyframes)
                    final == IF with_extra_splits(used_existing_cuts, args.extra_splits_len)
                             THEN extra_splits(forced, args.extra_splits_len)
                             ELSE forced
                IN  /\ frames' = read.frames
                    /\ done' = [done EXCEPT !.frames = read.frames]
                    /\ scenes' = final
                    /\ disk' = IF args.scenes = "Existing" THEN disk
                               ELSE [disk EXCEPT !.scenes_json =
                                        File([scenes |-> final, frames |-> read.frames])]
                    /\ main_pc' = "split_done"
    /\ UNCHANGED <<args, task_queue, worker, fatal, position, runs, tally, inserted>>
    /\ UNCHANGED <<audio, vspipe_cache, tqVars, auxVars>>

(***************************************************************************)
(* Av1anContext::load_or_gen_task_queue (lines 1211-1231): a resumed run   *)
(* reads tasks.json and keeps the tasks that are not done; any other run   *)
(* generates the queue (create_encoding_queue) and saves it to tasks.json. *)
(***************************************************************************)
\* create_video_queue_segment, lines 1080-1084; create_video_queue_hybrid
\* has no such assertion
no_files_assert(task_method, queue_files) ==
    task_method = "Segment" /\ queue_files = <<>>

load_or_gen_task_queue ==
    /\ main_pc = "split_done"
    /\ IF args.resume
       THEN IF disk.tasks_json = NoFile
            THEN \* read_task_queue(..)? fails
                 /\ main_pc' = "error"
                 /\ UNCHANGED <<task_queue, tally, disk>>
            ELSE LET tasks == Content(disk.tasks_json)
                 IN  /\ task_queue' = retain(tasks, done)
                     /\ tally' = NewTally(Len(tasks), tally.loaded)
                     /\ main_pc' = "queued"
                     /\ UNCHANGED disk
       ELSE LET queue_files == SplitFiles(args, scenes, frames, disk.split)
            IN  IF no_files_assert(args.task_method, queue_files)
                THEN \* assert!(!queue_files.is_empty(), ..) panics
                     /\ main_pc' = "error"
                     /\ disk' = [disk EXCEPT !.split = queue_files]
                     /\ UNCHANGED <<task_queue, tally>>
                ELSE \E tasks \in create_encoding_queue(args, scenes, frames,
                                                        queue_files) :
                       /\ task_queue' = tasks
                       /\ disk' = [disk EXCEPT !.split = queue_files,
                                               !.tasks_json = File(tasks)]
                       /\ tally' = NewTally(Len(tasks), {})
                       /\ main_pc' = "queued"
    /\ UNCHANGED <<args, done, frames, scenes, worker, fatal, position, runs,
                   inserted>>
    /\ UNCHANGED <<audio, vspipe_cache, tqVars, auxVars>>

(***************************************************************************)
(* encode_file, lines 323-392: the number of workers is capped by the      *)
(* length of the queue (args.workers keeps the value of the command line   *)
(* here, the cap shows in the workers spawned), the progress bar starts at *)
(* the frames of the ledger, the broker's workers are spawned and the main *)
(* thread blocks in rx.recv().  The audio thread is spawned first, for a   *)
(* video input whose audio is not yet done (lines 285-290).                *)
(***************************************************************************)
\* the audio thread spawned for every video input
audio_thread_Always(input, resume, audio_done) == input = "Video"

audio_thread(input, resume, audio_done) ==
    input = "Video" /\ (~resume \/ ~audio_done)

encoding_loop ==
    /\ main_pc = "queued"
    /\ vspipe_cache_join(vspipe_cache)
    /\ LET workers == Min2(args.workers, Len(task_queue))
           initial_frames == SumFrames(done.done)
       IN  /\ position' = initial_frames
           /\ worker' = [w \in Workers |->
                           IF w <= workers THEN [WorkerOff EXCEPT !.pc = "recv"]
                           ELSE WorkerOff]
    /\ audio' = IF audio_thread(args.input, args.resume, done.audio_done)
                 THEN [AudioOff EXCEPT !.pc = "encode"]
                 ELSE AudioOff
    /\ main_pc' = "recv"
    /\ UNCHANGED <<args, disk, done, frames, scenes, task_queue, fatal, runs,
                   tally, inserted>>
    /\ UNCHANGED <<vspipe_cache, tqVars, auxVars>>

(***************************************************************************)
(* Broker (broker.rs is not part of the sources at hand; after the         *)
(* specification, 4.F and 5).  A worker takes the head of the queue; with  *)
(* the queue empty it ends.  For every pass it calls create_pipes up to    *)
(* max_tries times.                                                        *)
(***************************************************************************)
\* a channel that leaves the message for the next receiver
Received_Broadcast(queue) == queue

\* the channel after a receive: the message goes to one receiver only
Received(queue) == Tail(queue)

try_recv(w) ==
    /\ main_pc = "recv"
    /\ worker[w].pc = "recv"
    /\ IF task_queue = <<>>
       THEN /\ worker' = [worker EXCEPT ![w].pc = "exit"]
            /\ UNCHANGED <<task_queue, tally>>
       ELSE LET task == Head(task_queue)
            IN  /\ task_queue' = Received(task_queue)
                /\ worker' = [worker EXCEPT ![w] =
                                [WorkerOff EXCEPT !.pc = "pipes", !.task = task,
                                                  !.current_pass = 1, !.try = 1]]
                /\ tally' = [tally EXCEPT !.dispatched[Name(task)] = @ + 1]
    /\ UNCHANGED <<args, disk, done, frames, scenes, fatal, position, main_pc,
                   runs, inserted>>
    /\ UNCHANGED <<audio, vspipe_cache, tqVars, auxVars>>

\* the oracle of the encoder: may this call of create_pipes crash, may it
\* succeed
MayCrash(task) ==
    IF args.crashes = <<>> THEN TRUE
    ELSE tally.crashes[Name(task)] < args.crashes[Name(task) + 1]

MaySucceed(task, current_pass, frame) ==
    /\ IF args.crashes = <<>> THEN TRUE
       ELSE tally.crashes[Name(task)] = args.crashes[Name(task) + 1]
    /\ IF args.reports = "all" /\ current_pass = args.passes
       THEN frame = Frames(task)
       ELSE TRUE

(***************************************************************************)
(* create_pipes, lines 682-717: one line of the encoder's stderr that      *)
(* advances the frame counter.  Only the final pass advances the bar.      *)
(***************************************************************************)
parse_encoded_frames(w) ==
    /\ main_pc = "recv"
    /\ worker[w].pc = "pipes"
    /\ worker[w].current_pass = args.passes
    /\ \E new \in 1..Frames(worker[w].task) :
         /\ new > worker[w].frame
         /\ position' = position + (new - worker[w].frame)
         /\ tally' = [tally EXCEPT !.advance = @ + (new - worker[w].frame)]
         /\ worker' = [worker EXCEPT ![w].frame = new,
                                     ![w].advanced = @ + (new - worker[w].frame)]
    /\ UNCHANGED <<args, disk, done, frames, scenes, task_queue, fatal, main_pc,
                   runs, inserted>>
    /\ UNCHANGED <<audio, vspipe_cache, tqVars, auxVars>>

(***************************************************************************)
(* The return of create_pipes (lines 732-781), given how the encoder ended *)
(* (exit: success is a zero exit status, counted tells that num_frames     *)
(* could count the frames of the output, encoded_frames is that count) and *)
(* the pass and the chunk (passes, frames, ignore_frame_mismatch).         *)
(***************************************************************************)
\* how an encoder may end on a chunk of the given frame count
EncoderExits(n) ==
    [success : BOOLEAN, counted : BOOLEAN, encoded_frames : 0..(n + 1)]

\* the frame count checked whatever the flag
create_pipes_result_NoFlag(exit, current_pass, task) ==
    IF ~exit.success THEN "Err"
    ELSE IF current_pass = task.passes
              /\ (~exit.counted \/ exit.encoded_frames # task.frames)
         THEN "Err"
         ELSE "Ok"

create_pipes_result(exit, current_pass, task) ==
    IF ~exit.success
    THEN "Err"                                       \* lines 732-743
    ELSE IF current_pass = task.passes
         THEN IF exit.counted /\ ~task.ignore_frame_mismatch
                 /\ exit.encoded_frames # task.frames
              THEN "Err"                             \* FRAME MISMATCH
              ELSE IF ~exit.counted
                   THEN "Err"                        \* FAILED TO COUNT FRAMES
                   ELSE "Ok"
         ELSE "Ok"                                   \* line 781

\* create_pipes may return result to worker w: some end of the encoder and
\* some setting of the chunk's flag give it
Returns(w, result) ==
    result \in
        {create_pipes_result(exit, worker[w].current_pass,
             [passes |-> args.passes, frames |-> Frames(worker[w].task),
              ignore_frame_mismatch |-> ignore]) :
            exit \in EncoderExits(Frames(worker[w].task)), ignore \in BOOLEAN}

(***************************************************************************)
(* create_pipes returns Ok (line 781): the encoder exited with status zero *)
(* and, on the final pass, the frame count of the output was accepted.     *)
(* The broker goes on to the next pass, or to the record of the chunk.     *)
(***************************************************************************)
create_pipes_ok(w) ==
    /\ main_pc = "recv"
    /\ worker[w].pc = "pipes"
    /\ MaySucceed(worker[w].task, worker[w].current_pass, worker[w].frame)
    /\ Returns(w, "Ok")
    /\ IF worker[w].current_pass < args.passes
       THEN /\ worker' = [worker EXCEPT ![w].current_pass = @ + 1,
                                        ![w].try = 1, ![w].frame = 0]
            /\ UNCHANGED disk
       ELSE /\ worker' = [worker EXCEPT ![w].pc = "insert"]
            /\ disk' = [disk EXCEPT !.encode = @ \cup {Name(worker[w].task)}]
    /\ UNCHANGED <<args, done, frames, scenes, task_queue, fatal, position,
                   main_pc, runs, tally, inserted>>
    /\ UNCHANGED <<audio, vspipe_cache, tqVars, auxVars>>

\* the frame count create_pipes returns with a crash: the whole chunk
CrashFrames_WholeChunk(w) == Frames(worker[w].task)

\* the frame count create_pipes returns with a crash: none
CrashFrames_Zero(w) == 0

\* the frame count create_pipes returns with a crash (lines 741, 776)
CrashFrames(w) == worker[w].frame

(***************************************************************************)
(* create_pipes returns Err((crash, frame)) (lines 732-743, 767-778): the  *)
(* encoder exited with a non-zero status, or the frame count of the output *)
(* was not accepted.  The broker calls dec_bar(frame), whose first step    *)
(* reads the position of the bar.                                          *)
(***************************************************************************)
create_pipes_err(w) ==
    /\ main_pc = "recv"
    /\ worker[w].pc = "pipes"
    /\ MayCrash(worker[w].task)
    /\ Returns(w, "Err")
    /\ worker' = [worker EXCEPT ![w].pc = "dec_bar",
                                ![w].frame = CrashFrames(w),
                                ![w].read = position,
                                ![w].crashed = @ + 1]
    /\ tally' = IF args.crashes = <<>> THEN tally
                ELSE [tally EXCEPT !.crashes[Name(worker[w].task)] = @ + 1]
    /\ UNCHANGED <<args, disk, done, frames, scenes, task_queue, fatal, position,
                   main_pc, runs, inserted>>
    /\ UNCHANGED <<audio, vspipe_cache, tqVars, auxVars>>

(***************************************************************************)
(* dec_bar (progress_bar.rs, lines 155-164): the position is set to the    *)
(* position read less the delta.  Then the broker's retry policy: after    *)
(* the max_tries-th crash of the pass the worker sends the fatal signal    *)
(* and ends; otherwise it runs the pass again.                             *)
(***************************************************************************)
\* the try that crashed was the max_tries-th of the pass
is_last_try(w) == worker[w].try >= args.max_tries

dec_bar(w) ==
    /\ main_pc = "recv"
    /\ worker[w].pc = "dec_bar"
    /\ position' = saturating_sub(worker[w].read, worker[w].frame)
    /\ IF is_last_try(w)
       THEN /\ fatal' = TRUE
            /\ worker' = [worker EXCEPT ![w].pc = "exit",
                                        ![w].rewound = @ + worker[w].frame]
            /\ tally' = [tally EXCEPT !.rewind = @ + worker[w].frame,
                                      !.exhausted = @ \cup {Name(worker[w].task)}]
       ELSE /\ worker' = [worker EXCEPT ![w].pc = "pipes", ![w].try = @ + 1,
                                        ![w].frame = 0,
                                        ![w].rewound = @ + worker[w].frame]
            /\ tally' = [tally EXCEPT !.rewind = @ + worker[w].frame]
            /\ UNCHANGED fatal
    /\ UNCHANGED <<args, disk, done, frames, scenes, task_queue, main_pc, runs,
                   inserted>>
    /\ UNCHANGED <<audio, vspipe_cache, tqVars, auxVars>>

(***************************************************************************)
(* The record of a chunk whose passes all succeeded: record, then          *)
(* snapshot (4.D).  The snapshot is written as lines 301-310 write it:     *)
(* File::create truncates done.json, then the ledger is serialised and     *)
(* written.                                                                *)
(***************************************************************************)
done_insert(w) ==
    /\ main_pc = "recv"
    /\ worker[w].pc = "insert"
    /\ LET c == Name(worker[w].task)
       IN  /\ done' = insert(done, c, Frames(worker[w].task))
           /\ tally' = [tally EXCEPT !.inserts[c] = @ + 1]
           /\ inserted' = Counted(inserted, c)
    /\ worker' = [worker EXCEPT ![w].pc = "create"]
    /\ UNCHANGED <<args, disk, frames, scenes, task_queue, fatal, position,
                   main_pc, runs>>
    /\ UNCHANGED <<audio, vspipe_cache, tqVars, auxVars>>

snapshot_create(w) ==
    /\ main_pc = "recv"
    /\ worker[w].pc = "create"
    /\ disk' = [disk EXCEPT !.done_json = File(Truncated)]
    /\ worker' = [worker EXCEPT ![w].pc = "write"]
    /\ UNCHANGED <<args, done, frames, scenes, task_queue, fatal, position,
                   main_pc, runs, tally, inserted>>
    /\ UNCHANGED <<audio, vspipe_cache, tqVars, auxVars>>

snapshot_write(w) ==
    /\ main_pc = "recv"
    /\ worker[w].pc = "write"
    /\ disk' = [disk EXCEPT !.done_json = File(done)]
    /\ worker' = [worker EXCEPT ![w] = [WorkerOff EXCEPT !.pc = "recv"]]
    /\ UNCHANGED <<args, done, frames, scenes, task_queue, fatal, position,
                   main_pc, runs, tally, inserted>>
    /\ UNCHANGED <<audio, vspipe_cache, tqVars, auxVars>>

\* a receiver that never sees the message
recv_is_ok_Never == FALSE

\* rx.recv().is_ok(): a worker has sent the fatal signal
recv_is_ok == fatal

(***************************************************************************)
(* encode_file, lines 397-399: rx.recv() returns the fatal signal and the  *)
(* process exits with status 1.                                            *)
(***************************************************************************)
exit_on_fatal ==
    /\ main_pc = "recv"
    /\ recv_is_ok
    /\ main_pc' = "exit1"
    /\ UNCHANGED <<args, disk, done, frames, scenes, task_queue, worker, fatal,
                   position, runs, tally, inserted>>
    /\ UNCHANGED <<audio, vspipe_cache, tqVars, auxVars>>

(***************************************************************************)
(* encode_file, lines 397-448: every sender is dropped with no message     *)
(* sent, rx.recv() returns Err, the broker and the audio thread are joined *)
(* and the concatenator is invoked (an external program: it may return an *)
(* error, and it may return Ok with or without a valid output); the temp   *)
(* directory is removed if a file exists at the output path, written now   *)
(* or left from before, and keep is unset.                                 *)
(***************************************************************************)
\* lines 438-448: the temp directory is removed when a file is at the
\* output path and keep is unset
remove_temp(exists, keep) == exists /\ ~keep

concatenate ==
    /\ main_pc = "recv"
    /\ ~recv_is_ok
    /\ \A w \in Workers : worker[w].pc \in {"off", "exit"}
    /\ audio.pc \in {"off", "done"}
    /\ \E result \in {"Err", "Ok"}, valid \in BOOLEAN, exists \in BOOLEAN,
          keep \in BOOLEAN :
         \* a valid output is a file at the output path, written by a
         \* concatenator that returns Ok; a file may be there without it
         /\ valid => (result = "Ok" /\ exists)
         /\ tally' = [tally EXCEPT !.concat =
                         [result |-> result, valid |-> valid,
                          exists |-> exists, keep |-> keep]]
         /\ IF result = "Err"
            THEN \* the error is returned with `?`
                 /\ main_pc' = "error"
                 /\ UNCHANGED disk
            ELSE /\ main_pc' = "finished"
                 /\ disk' = IF remove_temp(exists, keep) THEN EmptyTemp ELSE disk
    /\ UNCHANGED <<args, done, frames, scenes, task_queue, worker, fatal,
                   position, runs, inserted>>
    /\ UNCHANGED <<audio, vspipe_cache, tqVars, auxVars>>

(***************************************************************************)
(* The process is interrupted while it runs: its memory is lost, the temp  *)
(* directory stays.                                                        *)
(***************************************************************************)
Kill ==
    /\ main_pc \in {"initialized", "split_done", "queued", "recv"}
    /\ main_pc' = "killed"
    /\ done' = EmptyLedger
    /\ frames' = 0
    /\ scenes' = <<>>
    /\ task_queue' = <<>>
    /\ worker' = [w \in Workers |-> WorkerOff]
    /\ fatal' = FALSE
    /\ position' = 0
    /\ tally' = NoTally
    /\ audio' = AudioOff
    /\ vspipe_cache' = "None"
    /\ UNCHANGED <<args, disk, runs, inserted>>
    /\ UNCHANGED <<tqVars, auxVars>>

(***************************************************************************)
(* The process is interrupted inside load_or_gen_task_queue, after segment *)
(* has left its files in <temp>/split and before save_task_queue.          *)
(***************************************************************************)
KillAfterSegment ==
    /\ main_pc = "split_done"
    /\ ~args.resume
    /\ LET queue_files == SplitFiles(args, scenes, frames, disk.split)
       IN  /\ queue_files # <<>>
           /\ disk' = [disk EXCEPT !.split = queue_files]
    /\ main_pc' = "killed"
    /\ done' = EmptyLedger
    /\ frames' = 0
    /\ scenes' = <<>>
    /\ task_queue' = <<>>
    /\ worker' = [w \in Workers |-> WorkerOff]
    /\ fatal' = FALSE
    /\ position' = 0
    /\ tally' = NoTally
    /\ audio' = AudioOff
    /\ vspipe_cache' = "None"
    /\ UNCHANGED <<args, runs, inserted>>
    /\ UNCHANGED <<tqVars, auxVars>>

(***************************************************************************)
(* The program is started again on the same temp directory, with the same  *)
(* arguments but for the resume flag (chosen in initialize).               *)
(***************************************************************************)
Restart ==
    /\ main_pc \in {"killed", "exit1", "finished", "error", "io_panic"}
    /\ runs < MaxRuns
    /\ runs' = runs + 1
    /\ main_pc' = "start"
    /\ done' = EmptyLedger
    /\ frames' = 0
    /\ scenes' = <<>>
    /\ task_queue' = <<>>
    /\ worker' = [w \in Workers |-> WorkerOff]
    /\ fatal' = FALSE
    /\ position' = 0
    /\ tally' = NoTally
    /\ audio' = AudioOff
    /\ vspipe_cache' = "None"
    /\ UNCHANGED <<args, disk, inserted>>
    /\ UNCHANGED <<tqVars, auxVars>>

(***************************************************************************)
(* The audio thread (encode_file, lines 294-318): encode_audio, then the   *)
(* store of audio_done, then done.json is created (truncated), the ledger  *)
(* is serialised and the bytes are written at the start of the file.  No   *)
(* lock is held; a failed create or write panics, and the panic hook of    *)
(* main (main.rs, lines 45-53) exits the process.                          *)
(***************************************************************************)
\* the length of a serialised ledger grows with its records
Size(content) ==
    IF content = Truncated THEN 0 ELSE 1 + Cardinality(content.done)

\* a file as long as content that does not parse: the head of a shorter
\* serialisation followed by the tail of content
Garbled(content) == [content EXCEPT !.valid = FALSE]

\* write_all at offset 0 of a file that someone else may have written since
\* it was created: the bytes beyond the written ones stay
Overlay(file, content) ==
    IF file = NoFile \/ Size(content) >= Size(Content(file))
    THEN File(content)
    ELSE File(Garbled(Content(file)))

\* the mark left out
audio_done_store_Skipped(ledger) == ledger

\* audio_done.store(true, SeqCst), lines 296-298
audio_done_store(ledger) == [ledger EXCEPT !.audio_done = TRUE]

audio_mark_done ==
    /\ main_pc = "recv"
    /\ audio.pc = "encode"
    /\ done' = audio_done_store(done)
    /\ audio' = [audio EXCEPT !.pc = "create"]
    /\ UNCHANGED <<args, disk, frames, scenes, task_queue, worker, fatal,
                   position, main_pc, runs, tally, inserted>>
    /\ UNCHANGED <<vspipe_cache, tqVars, auxVars>>

audio_create ==
    /\ main_pc = "recv"
    /\ audio.pc = "create"
    /\ \E created \in IoOutcomes(args.io) :
         IF created
         THEN /\ disk' = [disk EXCEPT !.done_json = File(Truncated)]
              /\ audio' = [audio EXCEPT !.pc = "serialise"]
              /\ UNCHANGED main_pc
         ELSE /\ main_pc' = "io_panic"
              /\ UNCHANGED <<disk, audio>>
    /\ UNCHANGED <<args, done, frames, scenes, task_queue, worker, fatal,
                   position, runs, tally, inserted>>
    /\ UNCHANGED <<vspipe_cache, tqVars, auxVars>>

audio_serialise ==
    /\ main_pc = "recv"
    /\ audio.pc = "serialise"
    /\ audio' = [audio EXCEPT !.pc = "write", !.buf = done]
    /\ UNCHANGED <<args, disk, done, frames, scenes, task_queue, worker, fatal,
                   position, main_pc, runs, tally, inserted>>
    /\ UNCHANGED <<vspipe_cache, tqVars, auxVars>>

audio_write ==
    /\ main_pc = "recv"
    /\ audio.pc = "write"
    /\ \E written \in IoOutcomes(args.io) :
         IF written
         THEN /\ disk' = [disk EXCEPT !.done_json = Overlay(disk.done_json, audio.buf)]
              /\ audio' = [audio EXCEPT !.pc = "done"]
              /\ UNCHANGED main_pc
         ELSE /\ main_pc' = "io_panic"
              /\ UNCHANGED <<disk, audio>>
    /\ UNCHANGED <<args, done, frames, scenes, task_queue, worker, fatal,
                   position, runs, tally, inserted>>
    /\ UNCHANGED <<vspipe_cache, tqVars, auxVars>>

(***************************************************************************)
(* One call of create_pipes that has come to the exit of the encoder, for  *)
(* every pass, chunk and end of the encoder.                               *)
(***************************************************************************)
PipesCalls ==
    {[pc |-> "encoder_exit", exit |-> exit, current_pass |-> current_pass,
      task |-> [passes |-> passes, frames |-> n, ignore_frame_mismatch |-> ignore],
      result |-> "none"] :
        n \in 1..ChunkLen, passes \in 1..2, current_pass \in 1..2,
        ignore \in BOOLEAN, exit \in EncoderExits(ChunkLen)}

InitPipes ==
    /\ TQOff
    /\ RunOff
    /\ cli = CliOff
    /\ pipes \in {c \in PipesCalls : c.current_pass <= c.task.passes}

create_pipes_return ==
    /\ pipes.pc = "encoder_exit"
    /\ pipes' = [pipes EXCEPT !.pc = "returned",
                              !.result = create_pipes_result(pipes.exit,
                                             pipes.current_pass, pipes.task)]
    /\ UNCHANGED <<tqVars, runVars, cli>>

NextPipes == create_pipes_return

(***************************************************************************)
(* One call of create_pipes from the first line of the encoder's stderr to *)
(* its return (lines 675-781), for every verbosity, pass and chunk.  A     *)
(* line either carries no frame counter (parse_encoded_frames gives None)  *)
(* or carries any counter up to the frames of the chunk.                   *)
(***************************************************************************)
Verbosities == {"Quiet", "Normal", "Verbose"}

\* the counter taken on every pass
takes_counter_AnyPass(current_pass, passes, parsed, frame) ==
    parsed # NoQ /\ parsed > frame

\* lines 695-699: the line is parsed on the final pass only, and the counter
\* is taken when it is above the one held
takes_counter(current_pass, passes, parsed, frame) ==
    current_pass = passes /\ parsed # NoQ /\ parsed > frame

\* lines 700-707: inc_bar with verbosity Normal, inc_mp_bar with Verbose,
\* no call otherwise; the result is the delta the reporter is advanced by
inc_bar(verbosity, inc) ==
    IF verbosity \in {"Normal", "Verbose"} THEN inc ELSE 0

FrameCalls ==
    {[pc |-> "reading", verbosity |-> v, current_pass |-> current_pass,
      task |-> [passes |-> passes, frames |-> n, ignore_frame_mismatch |-> ignore],
      lines |-> 0, frame |-> 0, emitted |-> 0, result |-> "none",
      returned |-> NoQ] :
        v \in Verbosities, n \in 1..ChunkLen, passes \in 1..2,
        current_pass \in 1..2, ignore \in BOOLEAN}

InitFrames ==
    /\ TQOff
    /\ RunOff
    /\ cli = CliOff
    /\ pipes \in {c \in FrameCalls : c.current_pass <= c.task.passes}

\* one iteration of the loop of lines 682-717
read_until ==
    /\ pipes.pc = "reading"
    /\ pipes.lines < MaxLines
    /\ \E parsed \in {NoQ} \cup (0..pipes.task.frames) :
         pipes' = IF takes_counter(pipes.current_pass, pipes.task.passes,
                                   parsed, pipes.frame)
                  THEN [pipes EXCEPT !.lines = @ + 1,
                                     !.frame = parsed,
                                     !.emitted = @ + inc_bar(pipes.verbosity,
                                                             parsed - pipes.frame)]
                  ELSE [pipes EXCEPT !.lines = @ + 1]
    /\ UNCHANGED <<tqVars, runVars, cli>>

\* the end of the stream (read == 0), wait_with_output and the return of
\* lines 732-781: a crash is returned with the frame counter
wait_with_output ==
    /\ pipes.pc = "reading"
    /\ \E exit \in EncoderExits(pipes.task.frames) :
         LET result == create_pipes_result(exit, pipes.current_pass, pipes.task)
         IN  pipes' = [pipes EXCEPT !.pc = "returned",
                                    !.result = result,
                                    !.returned = IF result = "Err" THEN pipes.frame
                                                 ELSE NoQ]
    /\ UNCHANGED <<tqVars, runVars, cli>>

NextFrames ==
    \/ read_until
    \/ wait_with_output

(***************************************************************************)
(* parse_cli (main.rs): the cap of the extra splits and the protection of  *)
(* an existing output file.                                                *)
(***************************************************************************)
\* Option<usize> of --extra-split: None is NoQ, Some(x) is x
ExtraSplitOptions == {NoQ, 0, 1, 240, UsizeMax}

\* clip_info.frame_rate, a positive rational <<numerator, denominator>>
FrameRates == {<<24, 1>>, <<24000, 1001>>, <<1, 2>>}

\* --extra-split-sec, an f64: a finite number of tenths of a second, an
\* infinity or a NaN (the option's parser takes all of them)
ExtraSplitSecs ==
    {[kind |-> "finite", tenths |-> t] : t \in {0 - 100, 0 - 1, 0, 1, 100, 105}}
        \cup {[kind |-> k, tenths |-> 0] : k \in {"inf", "-inf", "nan"}}

\* floor of the rational n / d, d > 0
Floor(n, d) == n \div d

\* (frame_rate * extra_split_sec) as usize: the cast truncates, saturates
\* at 0 and usize::MAX and takes NaN to 0
as_usize(frame_rate, sec) ==
    CASE sec.kind = "nan" -> 0
      [] sec.kind = "inf" -> UsizeMax
      [] sec.kind = "-inf" -> 0
      [] OTHER ->
           LET n == frame_rate[1] * sec.tenths
               d == frame_rate[2] * 10
           IN  IF n < 0 THEN 0 ELSE Min2(Floor(n, d), UsizeMax)

\* the seconds taken even when --extra-split gives a number of frames
extra_splits_len_SecFirst(extra_split, frame_rate, sec) ==
    IF extra_split = 0 THEN 0
    ELSE as_usize(frame_rate, sec)

\* EncodeArgs.extra_splits_len (lines 1087-1094); None is 0, as in
\* split_routine, whose pattern Some(split_len @ 1..) takes them alike
extra_splits_len(extra_split, frame_rate, sec) ==
    IF extra_split = 0 THEN 0
    ELSE IF extra_split # NoQ THEN extra_split
    ELSE as_usize(frame_rate, sec)

\* a line read from the standard input, as a sequence of characters with
\* its end of line; the empty sequence is what read_line leaves at the end
\* of the input
Lines ==
    {<<"y", "\n">>, <<"Y", "\n">>, <<"n", "\n">>, <<"N", "\n">>, <<"\n">>,
     <<>>, <<" ", "y", " ", "\n">>, <<"y", "e", "s", "\n">>, <<"q", "\n">>}

Whitespace == {" ", "\n", "\t", "\r"}

RECURSIVE TrimStart(_)
TrimStart(line) ==
    IF line # <<>> /\ Head(line) \in Whitespace THEN TrimStart(Tail(line))
    ELSE line

RECURSIVE TrimEnd(_)
TrimEnd(line) ==
    IF line # <<>> /\ line[Len(line)] \in Whitespace
    THEN TrimEnd(SubSeq(line, 1, Len(line) - 1))
    ELSE line

\* str::trim
Trim(line) == TrimEnd(TrimStart(line))

\* every answer other than y and Y taken for a refusal
confirm_match_NoRepeat(line) ==
    IF Trim(line) \in {<<"y">>, <<"Y">>} THEN "true" ELSE "false"

\* the match of confirm (lines 889-896): Ok(true), Ok(false) or another turn
confirm_match(line) ==
    IF Trim(line) \in {<<"y">>, <<"Y">>} THEN "true"
    ELSE IF Trim(line) \in {<<"n">>, <<"N">>, <<>>} THEN "false"
    ELSE "repeat"

\* the command lines: -y and -n conflict (line 264)
CliCalls ==
    {[pc |-> "parse", extra_split |-> x, frame_rate |-> r, extra_split_sec |-> sec,
      overwrite |-> y, never_overwrite |-> n, exists |-> e,
      extra_splits_len |-> 0, prompts |-> 0, reads |-> 0, answer |-> <<>>,
      status |-> NoQ] :
        x \in ExtraSplitOptions, r \in FrameRates, sec \in ExtraSplitSecs,
        y \in BOOLEAN, n \in BOOLEAN, e \in BOOLEAN}

InitCli ==
    /\ TQOff
    /\ RunOff
    /\ pipes = PipesOff
    /\ cli \in {c \in CliCalls : ~(c.overwrite /\ c.never_overwrite)}

\* EncodeArgs is built (lines 1040-1157)
parse_cli_args ==
    /\ cli.pc = "parse"
    /\ cli' = [cli EXCEPT !.pc = "built",
                          !.extra_splits_len = extra_splits_len(cli.extra_split,
                                                   cli.frame_rate, cli.extra_split_sec)]
    /\ UNCHANGED <<tqVars, runVars, pipes>>

\* the test of the output path (lines 1159-1186): pc "returned" is the
\* return of parse_cli, after which the encode starts; "exited" is
\* exit(status)
parse_cli_overwrite ==
    /\ cli.pc = "built"
    /\ cli' = IF cli.overwrite \/ ~cli.exists
              THEN [cli EXCEPT !.pc = "returned"]
              ELSE IF cli.never_overwrite
                   THEN [cli EXCEPT !.pc = "exited", !.status = 0]
                   ELSE [cli EXCEPT !.pc = "confirm", !.prompts = 1]
    /\ UNCHANGED <<tqVars, runVars, pipes>>

\* one turn of the loop of confirm: a line is read and matched; prompts and
\* reads count the prompts written and the lines read, answer is the last
\* line read
confirm_read ==
    /\ cli.pc = "confirm"
    /\ \E line \in Lines :
         LET answer == confirm_match(line)
         IN  /\ answer = "repeat" => cli.prompts < MaxPrompts
             /\ cli' = CASE answer = "true" ->
                              [cli EXCEPT !.pc = "returned", !.reads = @ + 1,
                                          !.answer = line]
                         [] answer = "false" ->
                              [cli EXCEPT !.pc = "exited", !.status = 0,
                                          !.reads = @ + 1, !.answer = line]
                         [] OTHER ->
                              [cli EXCEPT !.prompts = @ + 1, !.reads = @ + 1,
                                          !.answer = line]
    /\ UNCHANGED <<tqVars, runVars, pipes>>

\* write_all, flush or read_line fails: `?` returns the error to main
confirm_io_error ==
    /\ cli.pc = "confirm"
    /\ cli' = [cli EXCEPT !.pc = "exited", !.status = 1]
    /\ UNCHANGED <<tqVars, runVars, pipes>>

NextCli ==
    \/ parse_cli_args
    \/ parse_cli_overwrite
    \/ confirm_read
    \/ confirm_io_error

NextPlan ==
    \/ initialize
    \/ split_routine
    \/ load_or_gen_task_queue

NextRun ==
    \/ NextPlan
    \/ vspipe_exit
    \/ encoding_loop
    \/ \E w \in Workers : try_recv(w)
    \/ \E w \in Workers : parse_encoded_frames(w)
    \/ \E w \in Workers : create_pipes_ok(w)
    \/ \E w \in Workers : create_pipes_err(w)
    \/ \E w \in Workers : dec_bar(w)
    \/ \E w \in Workers : done_insert(w)
    \/ \E w \in Workers : snapshot_create(w)
    \/ \E w \in Workers : snapshot_write(w)
    \/ exit_on_fatal
    \/ concatenate

NextAudio ==
    \/ NextRun
    \/ audio_mark_done
    \/ audio_create
    \/ audio_serialise
    \/ audio_write

Next ==
    \/ NextRun
    \/ Kill
    \/ Restart

NextResume ==
    \/ NextAudio
    \/ Kill
    \/ Restart

NextDowngrade ==
    \/ NextResume
    \/ KillAfterSegment

NextKeyframes ==
    \/ NextPlan
    \/ Kill
    \/ Restart

\* the planner alone
SpecPlan == InitPlan /\ [][NextPlan]_vars

\* the planner on scene lists with forced key frames, interrupted and
\* started again
SpecKeyframes == InitKeyframes /\ [][NextKeyframes]_vars

\* single calls of parse_cli
SpecCli == InitCli /\ [][NextCli]_vars

\* single returns of create_pipes
SpecPipes == InitPipes /\ [][NextPipes]_vars

\* single calls of create_pipes, line by line
SpecFrames == InitFrames /\ [][NextFrames]_vars

\* one process, never interrupted
SpecRetry == InitRetry /\ [][NextRun]_vars

\* scenario S4: one process, never interrupted
SpecS4 == InitS4 /\ [][NextRun]_vars

\* one process with a video input, never interrupted: the audio thread runs
\* beside the workers
SpecAudio == InitAudio /\ [][NextAudio]_vars

\* processes with a video input on one temp directory, interrupted and
\* started again
SpecResume == InitAudio /\ [][NextResume]_vars

\* the same, with the segment and the hybrid strategy and a muxer that
\* writes its files
SpecDowngrade == InitDowngrade /\ [][NextDowngrade]_vars

\* processes on one temp directory, interrupted and started again
Spec == InitRun /\ [][Next]_vars

(***************************************************************************)
(* Properties of the encode driver.                                        *)
(***************************************************************************)
\* the chunk names of the queue of the current process
ChunkNames == DOMAIN tally.dispatched

\* the tasks of a saved queue whose names are not in a set of names
Without(tasks, names) == SelectSeq(tasks, LAMBDA task : Name(task) \notin names)

\* the workers that hold a task
Holding == {w \in Workers : worker[w].task # NoTask}

\* C4: in a run that resumed (its ledger was loaded from done.json), the
\* queue is the queue saved in tasks.json without the chunks whose names
\* are in the loaded ledger, in the saved order; no chunk of the loaded
\* ledger is handed to a worker, held by a worker or recorded again; and
\* when the run finishes, every other chunk was handed out once and every
\* chunk is in the ledger.
C4_ResumedQueueSkipsDone ==
    args.resume =>
        /\ main_pc = "queued" =>
              task_queue = Without(Content(disk.tasks_json), tally.loaded)
        /\ main_pc \in {"queued", "recv", "exit1", "finished"} =>
              /\ \A c \in tally.loaded :
                    /\ c \in ChunkNames
                    /\ tally.dispatched[c] = 0
                    /\ tally.inserts[c] = 0
              /\ \A w \in Holding : Name(worker[w].task) \notin tally.loaded
        /\ main_pc = "finished" =>
              /\ \A c \in ChunkNames \ tally.loaded :
                    tally.dispatched[c] = 1 /\ tally.inserts[c] = 1
              /\ DoneNames(done) = ChunkNames

\* C4 witness: a run of three chunks resumed after only chunk 1 had been
\* recorded has finished, having encoded exactly chunks 0 and 2.
C4_Witness ==
    /\ args.resume
    /\ main_pc = "finished"
    /\ tally.loaded = {1}
    /\ ChunkNames = {0, 1, 2}
    /\ tally.dispatched = (0 :> 1) @@ (1 :> 0) @@ (2 :> 1)

\* C5: under every interleaving of the workers, no chunk is handed out more
\* than once in a run (so a chunk that is tried again is tried again by the
\* worker that received it), and no two workers hold the same chunk.
C5_ExclusiveDispatch ==
    /\ \A c \in ChunkNames : tally.dispatched[c] <= 1
    /\ \A w1, w2 \in Holding :
          w1 # w2 => Name(worker[w1].task) # Name(worker[w2].task)

\* C5 witness: two workers hold chunks at the same time and one of them is
\* at a second try of its chunk.
C5_Witness ==
    \E w1, w2 \in Workers :
        /\ w1 # w2
        /\ worker[w1].pc = "pipes" /\ worker[w1].try = 2
        /\ worker[w2].pc = "pipes"
        /\ tally.dispatched[Name(worker[w1].task)] = 1

\* C6 as stated: over every sequence of runs and resumes on one temp
\* directory, a record of a chunk name is inserted into the ledger at most
\* once, and once inserted it stays in the ledger of every later process.
C6_OneRecordOverAllRuns ==
    /\ \A c \in DOMAIN inserted : inserted[c] <= 1
    /\ main_pc \in {"queued", "recv", "exit1", "finished"} =>
          \A c \in DOMAIN inserted : contains_key(done, c)

\* C6 as amended: within one process a record of a chunk name is inserted
\* at most once and stays in the ledger; a resumed process keeps every
\* record of the ledger it loaded and inserts no record of such a name.
C6_OneRecordPerProcess ==
    /\ \A c \in ChunkNames :
          /\ tally.inserts[c] <= 1
          /\ tally.inserts[c] = 1 =>
                Cardinality({e \in done.done : e[1] = c}) = 1
    /\ \A c \in tally.loaded :
          /\ contains_key(done, c)
          /\ c \in ChunkNames => tally.inserts[c] = 0

\* C6 witness: a resumed process that loaded a record has inserted the
\* record of another chunk, and a chunk has by now been recorded in two
\* processes.
C6_Witness ==
    /\ args.resume
    /\ tally.loaded # {}
    /\ \E c \in ChunkNames : tally.inserts[c] = 1
    /\ \E c \in DOMAIN inserted : inserted[c] = 2

\* the workers that ended because their chunk ran out of tries
Exhausted == {w \in Holding : worker[w].pc = "exit"}

\* the attempts made so far at the chunk a worker holds: those that crashed,
\* and the one that runs or that succeeded
Attempts(w) ==
    worker[w].crashed
    + (IF worker[w].pc \in {"pipes", "insert", "create", "write"} THEN 1 ELSE 0)

Succeeded == {w \in Workers : worker[w].pc \in {"insert", "create", "write"}}

S4Len == args.frames \div 4

Range(start, end) == start..(end - 1)

\* the first frame of the source that the input of a task holds
Origin(task) == task.input[1]

\* C10 as stated: the frame ranges [start_frame, end_frame) of the chunks
\* of the queue a strategy emits are pairwise disjoint and their union is
\* [0, F).
C10_RangesPartition ==
    (main_pc = "queued" /\ ~args.resume) =>
        /\ \A i, j \in 1..Len(task_queue) :
              i # j => Range(task_queue[i].start_frame, task_queue[i].end_frame)
                       \cap Range(task_queue[j].start_frame, task_queue[j].end_frame) = {}
        /\ UNION {Range(task_queue[i].start_frame, task_queue[i].end_frame) :
                     i \in 1..Len(task_queue)} = Range(0, frames)

\* C10 as amended: the frame ranges of the chunks of the queue a strategy
\* emits, each taken in source frames (start_frame and end_frame count from
\* the first frame of the file the chunk reads: the source for the
\* script-driven and the select strategy, a segment file for the segment
\* and the hybrid strategy), are pairwise disjoint and their union is
\* [0, F); for the script-driven and the select strategy these are the
\* ranges [start_frame, end_frame) themselves.
C10_SourceRangesPartition ==
    (main_pc = "queued" /\ ~args.resume) =>
        /\ \A i, j \in 1..Len(task_queue) :
              i # j => Range(Origin(task_queue[i]) + task_queue[i].start_frame,
                             Origin(task_queue[i]) + task_queue[i].end_frame)
                       \cap Range(Origin(task_queue[j]) + task_queue[j].start_frame,
                                  Origin(task_queue[j]) + task_queue[j].end_frame) = {}
        /\ UNION {Range(Origin(task_queue[i]) + task_queue[i].start_frame,
                        Origin(task_queue[i]) + task_queue[i].end_frame) :
                     i \in 1..Len(task_queue)} = Range(0, frames)
        /\ args.task_method \in {"LSMASH", "Select"} =>
              \A i \in 1..Len(task_queue) : Origin(task_queue[i]) = 0

\* C10 witness: the hybrid strategy has emitted a queue with a chunk that
\* starts inside a segment file which is not the first.
C10_Witness ==
    /\ main_pc = "queued"
    /\ args.task_method = "Hybrid"
    /\ \E i \in 1..Len(task_queue) :
          Origin(task_queue[i]) > 0 /\ task_queue[i].start_frame > 0

(***************************************************************************)
(* Properties of the planner.                                              *)
(***************************************************************************)
\* the elements of a sequence
Elems(seq) == {seq[i] : i \in 1..Len(seq)}

\* a queue was generated (not read from tasks.json)
Planned == main_pc = "queued" /\ ~args.resume

\* the first frame of a chunk, in frames of the source
SourceStart(task) == Origin(task) + task.start_frame

\* C11 as stated: for every configured forced key frame k, the emitted queue
\* has a chunk whose start_frame is k; and a single k strictly inside a
\* detected scene splits that scene into exactly the two scenes [start, k)
\* and [k, end).
C11_ChunkStartsAtEveryKeyframe ==
    Planned =>
        \A k \in Elems(args.force_keyframes) :
            \E i \in 1..Len(task_queue) : task_queue[i].start_frame = k

\* C11 as amended: every configured forced key frame k below F starts a
\* scene of the final scene list; with the script-driven and the select
\* strategy the emitted queue has a chunk whose start_frame is k, with the
\* hybrid strategy a chunk whose first source frame is k; a k at or beyond F
\* starts no scene; and (no extra splits configured) a single k strictly
\* inside a detected scene leaves the other scenes as they were and puts
\* the two scenes [start, k) and [k, end) in the place of that scene.
C11_ChunkStartsAtKeyframeInRange ==
    Planned =>
        /\ \A k \in Elems(args.force_keyframes) :
              IF k < args.frames
              THEN /\ \E s \in Elems(scenes) : s.start_frame = k
                   /\ args.task_method \in {"LSMASH", "Select"} =>
                         \E t \in Elems(task_queue) : t.start_frame = k
                   /\ args.task_method = "Hybrid" =>
                         \E t \in Elems(task_queue) : SourceStart(t) = k
              ELSE \A s \in Elems(scenes) : s.start_frame # k
        /\ (Len(args.force_keyframes) = 1 /\ args.extra_splits_len = 0) =>
              LET k == args.force_keyframes[1]
                  d == args.detected
              IN  \A i \in 1..Len(d) :
                      (d[i].start_frame < k /\ k < d[i].end_frame) =>
                          scenes = SubSeq(d, 1, i - 1)
                                   \o <<Scene(d[i].start_frame, k),
                                        Scene(k, d[i].end_frame)>>
                                   \o SubSeq(d, i + 1, Len(d))

\* C11 witness: a queue was planned by the select strategy with the forced
\* key frame 1 strictly inside the detected scene [0, 3).
C11_Witness ==
    /\ Planned
    /\ args.task_method = "Select"
    /\ args.force_keyframes = <<1>>
    /\ args.extra_splits_len = 0
    /\ \E s \in Elems(args.detected) : s.start_frame = 0 /\ s.end_frame = 3
    /\ \E t \in Elems(task_queue) : t.start_frame = 1

\* C12 as stated: whenever an extra-split cap L >= 1 is configured, no chunk
\* of the emitted queue has more than L frames, whatever the origin of the
\* scene list.
C12_NoChunkOverCap ==
    (Planned /\ args.extra_splits_len >= 1) =>
        \A t \in Elems(task_queue) : Frames(t) <= args.extra_splits_len

\* C12 as amended: whenever an extra-split cap L >= 1 is configured and the
\* scene list comes from scene detection or split-method none (not from an
\* existing scenes file), no scene of the final list has more than L frames
\* and, with the script-driven, the select and the hybrid strategy, no chunk
\* of the emitted queue has more than L frames; a scene list read from an
\* existing scenes file is not split further: it is the list of the file
\* with the forced key frames injected.
C12_NoChunkOverCapOfDetectedScenes ==
    (Planned /\ args.extra_splits_len >= 1) =>
        IF args.scenes = "None"
        THEN /\ \A sc \in Elems(scenes) :
                   sc.end_frame - sc.start_frame <= args.extra_splits_len
             /\ args.task_method # "Segment" =>
                   \A t \in Elems(task_queue) : Frames(t) <= args.extra_splits_len
        ELSE Len(scenes) <= Len(args.detected) + Len(args.force_keyframes)
             /\ \A d \in Elems(args.detected) :
                   (\A k \in Elems(args.force_keyframes) :
                        ~(d.start_frame < k /\ k < d.end_frame))
                   => d \in Elems(scenes)

\* C12 witness: with the cap 2 a detected scene of four frames was planned
\* by the hybrid strategy into chunks of at most two frames.
C12_Witness ==
    /\ Planned
    /\ args.scenes = "None"
    /\ args.extra_splits_len = 2
    /\ args.task_method = "Hybrid"
    /\ \E d \in Elems(args.detected) : d.end_frame - d.start_frame = 4
    /\ Len(task_queue) >= 2
    /\ \A t \in Elems(task_queue) : Frames(t) <= 2

\* the frame ranges of the chunks of the queue
QueueRanges == {<<t.start_frame, t.end_frame>> : t \in Elems(task_queue)}

IsS1 == args \in ScenarioArgs /\ args.force_keyframes = <<>>

IsS2 == args \in ScenarioArgs /\ args.force_keyframes = <<250>>

\* C13 (scenario S1): with F = 1000, detected scenes [(0,400),(400,1000)]
\* and the extra-split cap 300, the planner emits exactly 4 chunks, with the
\* ranges (0,200), (200,400), (400,700), (700,1000).
C13_S1FourChunks ==
    (Planned /\ IsS1) =>
        /\ Len(task_queue) = 4
        /\ QueueRanges = {<<0, 200>>, <<200, 400>>, <<400, 700>>, <<700, 1000>>}

\* C13 witness: the queue of scenario S1 was planned and holds the chunk
\* (400,700).
C13_Witness ==
    /\ Planned
    /\ IsS1
    /\ <<400, 700>> \in QueueRanges

\* C14 as stated (scenario S2): as S1 with force_keyframes = [250], the
\* planner emits exactly 5 chunks, one of which starts at frame 250.
C14_S2FiveChunks ==
    (Planned /\ IsS2) =>
        /\ Len(task_queue) = 5
        /\ \E t \in Elems(task_queue) : t.start_frame = 250

\* C14 as amended: as S1 with force_keyframes = [250], the planner emits
\* exactly 4 chunks, with the ranges (0,250), (250,400), (400,700),
\* (700,1000): the forced key frame is injected before the extra splits, and
\* the two scenes it makes of [0,400) are within the cap.
C14_S2FourChunks ==
    (Planned /\ IsS2) =>
        /\ Len(task_queue) = 4
        /\ QueueRanges = {<<0, 250>>, <<250, 400>>, <<400, 700>>, <<700, 1000>>}

\* C14 witness: the queue of scenario S2 was planned and holds a chunk that
\* starts at frame 250.
C14_Witness ==
    /\ Planned
    /\ IsS2
    /\ \E t \in Elems(task_queue) : t.start_frame = 250

\* the queue is sorted by frame count, descending or ascending
ByFramesDescending ==
    \A i, j \in 1..Len(task_queue) :
        i < j => Frames(task_queue[i]) >= Frames(task_queue[j])

ByFramesAscending ==
    \A i, j \in 1..Len(task_queue) :
        i < j => Frames(task_queue[i]) <= Frames(task_queue[j])

\* chunks of equal frame count are in ascending index order
TiesByIndex ==
    \A i, j \in 1..Len(task_queue) :
        (i < j /\ Frames(task_queue[i]) = Frames(task_queue[j]))
            => task_queue[i].index < task_queue[j].index

InIndexOrder ==
    \A i, j \in 1..Len(task_queue) :
        i < j => task_queue[i].index < task_queue[j].index

\* C15 as stated: under longest-first the queue is sorted by chunk frame
\* count descending, under shortest-first ascending, and in both policies
\* any two chunks of equal frame count appear in ascending index order; under
\* sequential the queue is in index order.
C15_OrderedWithTiesByIndex ==
    Planned =>
        /\ args.task_order = "LongestFirst" => (ByFramesDescending /\ TiesByIndex)
        /\ args.task_order = "ShortestFirst" => (ByFramesAscending /\ TiesByIndex)
        /\ args.task_order = "Sequential" => InIndexOrder

\* C15 as amended: under longest-first the queue is sorted by chunk frame
\* count descending, under shortest-first ascending, chunks of equal frame
\* count being in no particular order; under sequential the queue is in
\* index order.
C15_Ordered ==
    Planned =>
        /\ args.task_order = "LongestFirst" => ByFramesDescending
        /\ args.task_order = "ShortestFirst" => ByFramesAscending
        /\ args.task_order = "Sequential" => InIndexOrder

\* C15 witness: a longest-first queue of three chunks, two of them of equal
\* frame count and one longer, was planned.
C15_Witness ==
    /\ Planned
    /\ args.task_order = "LongestFirst"
    /\ Len(task_queue) = 3
    /\ Frames(task_queue[1]) > Frames(task_queue[2])
    /\ Frames(task_queue[2]) = Frames(task_queue[3])
    /\ task_queue[1].index > 0

\* C17: with the segment strategy the generated queue has exactly one
\* chunk per segment file, indexed 0..n-1 in the file-name order of the
\* files, each covering its whole file as [0, frames_in_segment); for the
\* key frames {0,100,500,900} and the scenes [(0,100),(100,500),(500,900),
\* (900,1000)] there are 4 segment files and 4 chunks.
C17_OneChunkPerSegmentFile ==
    (Planned /\ args.task_method = "Segment") =>
        /\ Len(task_queue) = Len(disk.split)
        /\ {t.index : t \in Elems(task_queue)} = 0..(Len(disk.split) - 1)
        /\ \A t \in Elems(task_queue) :
              /\ t.input = disk.split[t.index + 1]
              /\ t.start_frame = 0
              /\ t.end_frame = num_frames(disk.split[t.index + 1])
        /\ args \in SegmentScenarioArgs =>
              (Len(disk.split) = 4 /\ Len(task_queue) = 4)

\* C17 witness: the queue of the segment scenario was planned; the chunk of
\* index 1 covers the 400 frames of the second file.
C17_Witness ==
    /\ Planned
    /\ args \in SegmentScenarioArgs
    /\ \E t \in Elems(task_queue) :
          t.index = 1 /\ t.start_frame = 0 /\ t.end_frame = 400

(***************************************************************************)
(* Properties of a run with a video input.                                 *)
(***************************************************************************)
\* pre-segmentation has left no file in <temp>/split
NoSegmentFiles ==
    /\ ~args.split_ok
    /\ main_pc \notin {"start", "initialized", "split_done"}

\* no thread was started and nothing was encoded or concatenated
NothingStarted ==
    /\ audio.pc = "off"
    /\ \A w \in Workers : worker[w].pc = "off"
    /\ disk.encode = {}
    /\ main_pc # "finished"

\* C16 as stated: for the segment strategy and for the hybrid strategy, if
\* pre-segmentation leaves zero segment files, queue generation fails
\* fatally before the audio thread or any worker is started, and no chunk is
\* encoded or concatenated.
C16_NoFilesIsFatal ==
    (NoSegmentFiles /\ args.task_method \in {"Segment", "Hybrid"}) =>
        (main_pc = "error" /\ NothingStarted)

\* one step in which every thread that leaves a ledger event behind goes on
\* to the snapshot of done.json, and what it writes includes the event
SnapshotFollowsEvent ==
    /\ \A w \in Workers :
          /\ (worker[w].pc = "insert" /\ worker'[w].pc # "insert") =>
                /\ worker'[w].pc = "create"
                /\ contains_key(done', Name(worker[w].task))
          /\ (worker[w].pc = "create" /\ worker'[w].pc # "create") =>
                worker'[w].pc = "write"
          /\ (worker[w].pc = "write" /\ worker'[w].pc # "write") =>
                /\ disk'.done_json # NoFile
                /\ contains_key(Content(disk'.done_json), Name(worker[w].task))
    /\ (audio.pc = "encode" /\ audio'.pc # "encode") =>
          (audio'.pc = "create" /\ done'.audio_done)
    /\ (audio.pc = "create" /\ audio'.pc # "create") =>
          audio'.pc = "serialise"
    /\ (audio.pc = "serialise" /\ audio'.pc # "serialise") =>
          (audio'.pc = "write" /\ audio'.buf.valid /\ audio'.buf.audio_done)
    /\ (audio.pc = "write" /\ audio'.pc # "write") =>
          (audio'.pc = "done" /\ audio'.buf = audio.buf /\ disk'.done_json # NoFile)

\* C18: each chunk completion record and the audio-done mark is followed,
\* before the owning thread does anything else, by a write of done.json
\* whose content includes that event; in particular the audio thread stores
\* audio_done = true and then writes done.json with audio_done = true.
C18_SnapshotAfterEveryEvent == [][SnapshotFollowsEvent]_vars

\* C18 witness: the audio thread has written its snapshot, with audio_done
\* set and a chunk recorded, and a worker has written the snapshot of a
\* chunk.
C18_Witness ==
    /\ main_pc = "recv"
    /\ audio.pc = "done"
    /\ audio.buf.audio_done
    /\ audio.buf.done # {}
    /\ \E w \in Workers : worker[w].pc = "exit"
    /\ done.done # {}

\* every writer of done.json has finished and the process is alive
AllWritersDone ==
    /\ main_pc = "recv"
    /\ \A w \in Workers : worker[w].pc \in {"off", "exit"}
    /\ audio.pc \in {"off", "done"}

\* content is the in-memory ledger of some instant of this process (the
\* frame count is 0 until split_routine stores it)
PastLedger(content) ==
    /\ content.valid
    /\ content.frames \in {0, done.frames}
    /\ content.done \subseteq done.done
    /\ content.audio_done => done.audio_done

\* C19 as stated: with the audio thread and the worker threads each writing
\* done.json (truncate, serialise, write) without a common lock, every
\* completed snapshot equals the in-memory ledger at some instant, and once
\* all writers have finished the on-disk ledger equals the in-memory ledger
\* (audio_done and every recorded chunk included).
C19_SnapshotsConsistent ==
    (main_pc = "recv" /\ disk.done_json # NoFile) =>
        /\ Content(disk.done_json) = Truncated
              \/ PastLedger(Content(disk.done_json))
        /\ AllWritersDone => disk.done_json = File(done)

\* C20 as stated: if writing the done.json snapshot fails (the file cannot
\* be created or written), the error is reported and the run continues; the
\* failure never terminates the process.
C20_IoFailureNeverTerminates ==
    args.io = "MayFail" => main_pc # "io_panic"

\* C21 as stated: whenever concatenation fails (the concatenator returns an
\* error or does not produce a valid output), the temp directory is not
\* deleted, whether or not the keep flag is set; the temp directory is
\* deleted only after a successful concatenation with keep unset.
C21_ConcatFailureKeepsTemp ==
    LET c == tally.concat
    IN  c.result # "none" =>
           /\ (c.result = "Err" \/ ~c.valid) => disk # EmptyTemp
           /\ disk = EmptyTemp => (c.result = "Ok" /\ c.valid /\ ~c.keep)

(***************************************************************************)
(* Properties of create_pipes.                                             *)
(***************************************************************************)
\* create_pipes has returned from a final pass whose encoder exited with
\* status zero and whose output has a frame count other than the chunk's
FrameMismatch ==
    /\ pipes.pc = "returned"
    /\ pipes.exit.success
    /\ pipes.current_pass = pipes.task.passes
    /\ pipes.exit.counted
    /\ pipes.exit.encoded_frames # pipes.task.frames

\* C22: on the final pass of an attempt whose encoder exited with status
\* zero, a difference between the produced frame count and the chunk's
\* expected frame count makes the attempt a crash if and only if the chunk's
\* ignore_frame_mismatch flag is unset; with the flag set the attempt
\* succeeds; no frame count check is made on the first pass of a two-pass
\* encode.
C22_FrameMismatchIsCrashUnlessIgnored ==
    /\ FrameMismatch =>
          (pipes.result = "Err" <=> ~pipes.task.ignore_frame_mismatch)
    /\ (FrameMismatch /\ pipes.task.ignore_frame_mismatch) => pipes.result = "Ok"
    /\ (pipes.pc = "returned" /\ pipes.exit.success
           /\ pipes.current_pass < pipes.task.passes) => pipes.result = "Ok"

\* C22 witness: a final pass whose output has another frame count than the
\* chunk has returned Ok, the chunk's flag being set.
C22_Witness ==
    /\ FrameMismatch
    /\ pipes.task.ignore_frame_mismatch
    /\ pipes.result = "Ok"

(***************************************************************************)
(* Properties of the target-quality search: failures and limits.           *)
(***************************************************************************)
\* a step of a search whose probe has not crashed; if the probe crashes in
\* it, the probes run and the chunk's tq_cq are as before
CrashReturnsAtOnce ==
    /\ tq_pc # "crashed"
    /\ tq_pc' = "crashed" =>
          /\ tq_cq' = tq_cq
          /\ probe_log' = probe_log
          /\ quantizer_score_history' = quantizer_score_history

\* C23: if a probe crashes, per_shot_target_quality_routine returns the
\* error at once: no further probe is run and the chunk's tq_cq is left
\* unchanged.
C23_ProbeCrashReturnsError == [][CrashReturnsAtOnce]_vars

\* C23 witness: the second probe of a search has crashed.
C23_Witness ==
    /\ tq_pc = "crashed"
    /\ Len(probe_log) = 1
    /\ tq_cq = NoQ

\* C28: for every probed q* in [min_q, max_q] the update of the limits
\* computes lo = min(q*+1, hi) when score > target and hi = max(q*-1, lo)
\* otherwise without unsigned wrap-around or overflow, q* = 0 and
\* q* = 2^32-1 included, so hi never becomes larger than max_q.
C28_NoWrapAround ==
    /\ tq_pc # "panic"
    /\ upper_quantizer_limit <= tq.max_q

\* C29: given min_q <= max_q, in every iteration of the search loop
\* min_q <= lo <= hi <= max_q holds and every predicted q* satisfies
\* lo <= q* <= hi; lo never decreases and hi never increases; the 'lo > hi'
\* exit is never taken.
C29_BoundsInvariant ==
    /\ tq_pc = "loop" =>
          /\ tq.min_q <= lower_quantizer_limit
          /\ lower_quantizer_limit <= upper_quantizer_limit
          /\ upper_quantizer_limit <= tq.max_q
          /\ lower_quantizer_limit <= next_quantizer
          /\ next_quantizer <= upper_quantizer_limit
    /\ skip \notin {"QuantizerTooHigh", "QuantizerTooLow"}

\* no two entries of the history have the same quantizer
NoRepeat(history) ==
    \A i, j \in 1..Len(history) : history[i][1] = history[j][1] => i = j

\* a step of the search: it leaves a history without repeated quantizer,
\* and if the predicted quantizer is in the history it ends the search with
\* the history and the probes run as they are
NoRepeatedProbe ==
    /\ NoRepeat(quantizer_score_history')
    /\ (tq_pc = "loop" /\ Probed(next_quantizer)) =>
          /\ tq_pc' = "done"
          /\ quantizer_score_history' = quantizer_score_history
          /\ probe_log' = probe_log

\* C30: the quantizer-score history of a chunk never contains two entries
\* with the same quantizer; when the predicted q* is already in the history
\* the search terminates without running another probe and without changing
\* the history.
C30_NoRepeatedProbe == [][NoRepeatedProbe]_vars

\* C30 witness: a search has ended on a predicted quantizer that was in a
\* history of three probes, not in the order of their quantizers.
C30_Witness ==
    /\ tq_pc = "done"
    /\ skip = "None"
    /\ Len(quantizer_score_history) = 3
    /\ quantizer_score_history # log_probes(quantizer_score_history)

(***************************************************************************)
(* Properties of parse_cli.                                                *)
(***************************************************************************)
\* parse_cli has built the arguments of the encode
ArgsBuilt == cli.pc \notin {"off", "parse"}

\* frame_rate * extra_split_sec as the rational <<numerator, denominator>>
CapProduct == <<cli.frame_rate[1] * cli.extra_split_sec.tenths, cli.frame_rate[2] * 10>>

\* C26 (as stated): --extra-split 0 disables extra splits (no scene is
\* subdivided); --extra-split x with x > 0 sets the cap to x frames and
\* takes priority over --extra-split-sec; when --extra-split is absent the
\* cap is floor(frame_rate * extra_split_sec) frames.
C26_CapIsFloorOfSeconds ==
    ArgsBuilt =>
        /\ cli.extra_split = 0 => ~with_extra_splits(FALSE, cli.extra_splits_len)
        /\ cli.extra_split > 0 => cli.extra_splits_len = cli.extra_split
        /\ (cli.extra_split = NoQ /\ cli.extra_split_sec.kind = "finite") =>
              cli.extra_splits_len = Floor(CapProduct[1], CapProduct[2])

\* C26 (amended): --extra-split 0 disables extra splits; --extra-split x
\* with x > 0 sets the cap to x frames and takes priority over
\* --extra-split-sec; when --extra-split is absent the cap is
\* floor(frame_rate * extra_split_sec) frames if that product is not
\* negative (at most usize::MAX), and 0, which disables extra splits, if the
\* product is negative or not a number.
C26_CapIsSaturatedFloorOfSeconds ==
    ArgsBuilt =>
        /\ cli.extra_split = 0 => ~with_extra_splits(FALSE, cli.extra_splits_len)
        /\ cli.extra_split > 0 => cli.extra_splits_len = cli.extra_split
        /\ cli.extra_split = NoQ =>
              /\ (cli.extra_split_sec.kind = "finite" /\ CapProduct[1] >= 0) =>
                    cli.extra_splits_len =
                        Min2(Floor(CapProduct[1], CapProduct[2]), UsizeMax)
              /\ cli.extra_split_sec.kind = "inf" => cli.extra_splits_len = UsizeMax
              /\ (cli.extra_split_sec.kind \in {"nan", "-inf"}
                     \/ (cli.extra_split_sec.kind = "finite" /\ CapProduct[1] < 0)) =>
                    /\ cli.extra_splits_len = 0
                    /\ ~with_extra_splits(FALSE, cli.extra_splits_len)

\* C26 witness: without --extra-split, 24000/1001 frames a second and the
\* default 10.0 seconds give a cap of 239 frames.
C26_Witness ==
    /\ ArgsBuilt
    /\ cli.extra_split = NoQ
    /\ cli.frame_rate = <<24000, 1001>>
    /\ cli.extra_split_sec = [kind |-> "finite", tenths |-> 100]
    /\ cli.extra_splits_len = 239

\* parse_cli is past its test of an output path at which a file exists
OutputExistsTested == cli.pc \in {"confirm", "returned", "exited"} /\ cli.exists

\* the last prompt has been answered, and the answer is one of these
Answered(answers) == cli.reads = cli.prompts /\ Trim(cli.answer) \in answers

ThreadsStarted ==
    \/ audio.pc # "off"
    \/ \E w \in Workers : worker[w].pc # "off"
    \/ main_pc = "recv"

\* C24: when the frame-server cache warm-up thread is started
\* (script-backed source, non-resume run), it has terminated before the
\* audio thread, the broker and any worker are started; on a resumed run no
\* warm-up thread is started.
C24_WarmUpBeforeWorkers ==
    /\ ThreadsStarted => vspipe_cache # "running"
    /\ (args.resume /\ main_pc \notin {"off", "start"}) => vspipe_cache = "None"
    /\ vspipe_cache # "None" =>
          (~args.resume /\ (args.input = "VapourSynth" \/ args.task_method = "LSMASH"))

\* C24 witness: the warm-up thread of a run on a video read through a script
\* has terminated, and the audio thread and a worker run.
C24_Witness ==
    /\ vspipe_cache = "terminated"
    /\ audio.pc = "encode"
    /\ \E w \in Workers : worker[w].pc # "off"

\* a step of the run: the audio thread is started by the step that starts
\* the workers and by no other, it is started there if and only if the
\* input is a video and the run is not a resume or the ledger, as loaded,
\* has audio_done false, and it does not encode again once it has
AudioStartedOnce ==
    /\ (audio'.pc # "off" /\ audio.pc = "off") =>
          (main_pc = "queued" /\ main_pc' = "recv" /\ audio'.pc = "encode")
    /\ (main_pc = "queued" /\ main_pc' = "recv") =>
          (audio'.pc = "encode" <=>
              (args.input = "Video" /\ (~args.resume \/ ~done.audio_done)))
    /\ audio.pc \notin {"off", "encode"} => audio'.pc # "encode"

\* C25: audio encoding runs as at most one task per run, concurrently with
\* the worker pool; it is started iff the input is a video file and (the
\* run is not a resume or the loaded ledger's audio_done flag is false), so
\* a resumed run whose ledger has audio_done = true never re-encodes audio.
C25_AudioTask == [][AudioStartedOnce]_vars

\* the ledger of the temp directory says that the audio is done
LedgerAudioDone ==
    /\ disk.done_json # NoFile
    /\ Content(disk.done_json) # Truncated
    /\ Content(disk.done_json).audio_done

\* C25 witness: a resumed run on a video whose ledger has audio_done = true
\* encodes a chunk with no audio thread.
C25_Witness ==
    /\ args.input = "Video"
    /\ args.resume
    /\ LedgerAudioDone
    /\ main_pc = "recv"
    /\ audio.pc = "off"
    /\ \E w \in Workers : worker[w].pc \notin {"off", "recv"}

(***************************************************************************)
(* Properties of the target-quality search: the probe within tolerance.    *)
(***************************************************************************)
\* C31: at every point of the search the history contains at most one probe
\* whose score is within tolerance of the target, and if it contains one it
\* is the most recently run probe and the search has terminated; hence when
\* a within-tolerance probe exists the returned q is the q of the last probe
\* run.
C31_OneProbeWithinTolerance ==
    /\ Cardinality(WithinToleranceProbes) <= 1
    /\ \A i \in 1..Len(quantizer_score_history) :
          within_tolerance(quantizer_score_history[i][2], tq.target) =>
              quantizer_score_history[i] = probe_log[Len(probe_log)]
    /\ WithinToleranceProbes # {} =>
          /\ WithinToleranceProbes = {Len(probe_log)}
          /\ tq_pc = "done"
          /\ tq_cq = probe_log[Len(probe_log)][1]

\* C31 witness: the third probe of a search is within tolerance, its
\* quantizer is not the lowest probed, and it is returned.
C31_Witness ==
    /\ tq_pc = "done"
    /\ Len(probe_log) = 3
    /\ WithinToleranceProbes = {3}
    /\ \E i \in 1..2 : probe_log[i][1] < probe_log[3][1]
    /\ tq_cq = probe_log[3][1]

(***************************************************************************)
(* Properties of the start of a run.                                       *)
(***************************************************************************)
\* done.json or tasks.json is missing from the temp directory
LedgerFilesMissing == disk.done_json = NoFile \/ disk.tasks_json = NoFile

\* the scene list split_routine computes from the detected scenes
ComputedScenes ==
    LET forced == ForceKeyframes(args.detected, args.force_keyframes)
    IN  IF with_extra_splits(FALSE, args.extra_splits_len)
        THEN extra_splits(forced, args.extra_splits_len)
        ELSE forced

\* a step of the start of a run: initialize clears the resume flag when one
\* of the two files is missing, starts an empty ledger and writes it, and
\* loads the ledger only with both files there; a run with the flag cleared
\* computes its scenes and generates and saves its queue
StartsAsNonResume ==
    /\ (main_pc = "start" /\ main_pc' = "initialized") =>
          /\ LedgerFilesMissing =>
                /\ ~args'.resume
                /\ done' = EmptyLedger
                /\ disk'.done_json = File(EmptyLedger)
          /\ args'.resume =>
                /\ ~LedgerFilesMissing
                /\ done'.done = Content(disk.done_json).done
                /\ UNCHANGED disk
    /\ (main_pc = "initialized" /\ main_pc' = "split_done" /\ ~args.resume
           /\ args.scenes # "Existing") =>
          scenes' = ComputedScenes
    /\ (main_pc = "split_done" /\ main_pc' = "queued" /\ ~args.resume) =>
          /\ task_queue' \in create_encoding_queue(args, scenes, frames, disk'.split)
          /\ disk'.tasks_json = File(task_queue')

C33_CleanStart ==
    /\ (main_pc \in {"initialized", "split_done"} /\ ~args.resume) =>
          (disk.split = <<>> /\ disk.encode = {})
    /\ (main_pc = "queued" /\ ~args.resume) => disk.encode = {}

\* every chunk left in the queue was encoded: no worker is at work, none
\* has sent the fatal signal
RemainingChunksSucceeded ==
    /\ main_pc = "recv"
    /\ ~fatal
    /\ task_queue = <<>>
    /\ \A w \in Workers : worker[w].pc \in {"off", "exit"}

\* the bar starts at the frames of the ledger the process holds, which is
\* the ledger of done.json in a resumed run and the empty one otherwise; its
\* length is frames; it stands at frames when the last chunk has succeeded
ProgressRestore ==
    /\ (main_pc = "queued" /\ main_pc' = "recv") =>
          /\ position' = SumFrames(done.done)
          /\ args.resume => done.done = Content(disk.done_json).done
          /\ ~args.resume => position' = 0
          /\ frames = args.frames
    /\ RemainingChunksSucceeded' => position' = frames

\* C34: when the progress reporter is started, its position equals the sum
\* of the frames fields of all completion records in the loaded ledger (0
\* for a fresh run) and its length equals the total frame count; the
\* position reached after all remaining chunks succeed equals the total
\* frame count.
C34_ProgressRestore == [][ProgressRestore]_vars

\* a step that invokes the concatenator
ConcatenatorInvoked == tally'.concat # tally.concat

\* the concatenator is invoked by a main thread that has left rx.recv()
\* without a message, with every worker ended and the audio thread, if one
\* was started, finished, and that has not invoked it before
ConcatenatedInOrder ==
    ConcatenatorInvoked =>
        /\ main_pc = "recv"
        /\ ~fatal /\ ~fatal'
        /\ \A w \in Workers : worker[w].pc \in {"off", "exit"}
        /\ audio.pc \in {"off", "done"}
        /\ tally.concat = NoConcat
        /\ main_pc' \in {"finished", "error"}

\* C35: the output concatenator is invoked only after the broker's encoding
\* loop has returned without sending a fatal signal and after the audio
\* thread (if one was started) has finished; it is invoked at most once per
\* input, and never after a fatal signal.
C35_ConcatenationOrdering == [][ConcatenatedInOrder]_vars

\* C35 witness: the concatenator was invoked in a run whose audio thread
\* had been started and has finished, all chunks being in the ledger.
C35_Witness ==
    /\ main_pc = "finished"
    /\ tally.concat.result = "Ok"
    /\ audio.pc = "done"
    /\ ~fatal
    /\ done.done # {}

\* a scene list that is sorted, non-overlapping, made of non-empty ranges
\* and contiguous from 0 to F
IsSceneList(list, F) ==
    /\ Len(list) >= 1
    /\ list[1].start_frame = 0
    /\ list[Len(list)].end_frame = F
    /\ \A i \in 1..Len(list) : list[i].start_frame < list[i].end_frame
    /\ \A i \in 1..(Len(list) - 1) : list[i].end_frame = list[i + 1].start_frame

\* a step of split_routine that goes through the injection
InjectionStep == main_pc = "initialized" /\ main_pc' = "split_done"

\* the scene list split_routine starts from: scenes.json in a resumed run,
\* the detected scenes otherwise
ReadScenes ==
    IF args.resume THEN Content(disk.scenes_json).scenes ELSE args.detected

\* the scene list after the first n forced key frames
InjectedUpTo(n) == ForceKeyframes(ReadScenes, SubSeq(args.force_keyframes, 1, n))

InjectionKeepsSceneList ==
    (InjectionStep /\ IsSceneList(ReadScenes, frames')) =>
        /\ \A n \in 1..Len(args.force_keyframes) :
              LET kf == args.force_keyframes[n]
                  before == InjectedUpTo(n - 1)
              IN  /\ IsSceneList(InjectedUpTo(n), frames')
                  /\ (kf >= frames' \/ \E s \in Elems(before) : s.start_frame = kf) =>
                        InjectedUpTo(n) = before
        /\ ~with_extra_splits(args.resume, args.extra_splits_len) =>
              /\ scenes' = InjectedUpTo(Len(args.force_keyframes))
              /\ IsSceneList(scenes', frames')

\* C36: if the scene list is sorted, non-overlapping, made of non-empty
\* ranges and contiguous from 0 to F before injection, it is so after
\* injecting any list of forced key-frames; a forced key-frame equal to an
\* existing scene start, or >= F, leaves the scene list unchanged.
C36_InjectionKeepsSceneList == [][InjectionKeepsSceneList]_vars

\* C36 witness: the forced key frames 1 and 2 were injected into the scenes
\* [0,2) and [2,4): 1 has split the first scene, 2 started a scene already.
C36_Witness ==
    /\ main_pc = "split_done"
    /\ args.detected = <<Scene(0, 2), Scene(2, 4)>>
    /\ args.force_keyframes = <<1, 2>>
    /\ args.extra_splits_len = 0
    /\ scenes = <<Scene(0, 1), Scene(1, 2), Scene(2, 4)>>

\* what split_routine makes of a scene list and a list of forced key frames
SplitRoutineScenes(list, kfs) ==
    IF with_extra_splits(args.resume, args.extra_splits_len)
    THEN extra_splits(ForceKeyframes(list, kfs), args.extra_splits_len)
    ELSE ForceKeyframes(list, kfs)

InjectionIsIdempotent ==
    InjectionStep =>
        /\ \A kfs \in KeyframeLists(frames') :
              Elems(kfs) = Elems(args.force_keyframes) =>
                 /\ ForceKeyframes(ReadScenes, kfs) =
                       ForceKeyframes(ReadScenes, args.force_keyframes)
                 /\ scenes' = SplitRoutineScenes(ReadScenes, kfs)
        /\ args.resume =>
              /\ disk'.scenes_json = disk.scenes_json
              /\ scenes' = Content(disk.scenes_json).scenes

\* C37: injecting a list of forced key-frames yields the same scene list
\* whatever the order or repetition of the key-frames in the list, and
\* running split_routine again on the scene list it wrote (as a resume does,
\* with the same forced key-frames) rewrites an identical scenes.json.
C37_InjectionIsIdempotent == [][InjectionIsIdempotent]_vars

\* C37 witness: a resumed process has run split_routine on the scenes.json
\* of the first, which had injected the forced key frames 2 and 1 in that
\* order, and has written the same file.
C37_Witness ==
    /\ runs = 2
    /\ args.resume
    /\ main_pc = "split_done"
    /\ args.force_keyframes = <<2, 1>>
    /\ args.detected = <<Scene(0, 4)>>
    /\ args.extra_splits_len = 0
    /\ scenes = <<Scene(0, 1), Scene(1, 2), Scene(2, 4)>>
    /\ disk.scenes_json = File([scenes |-> scenes, frames |-> frames])

\* the chunks of the queue that encode the scene s: they read a segment
\* file that contains the scene, with the range of the scene counted from
\* the first frame x of that file
ChunksOfScene(s) ==
    {i \in 1..Len(task_queue) :
        LET t == task_queue[i]
            x == t.input[1]
        IN  /\ x <= s.start_frame /\ s.end_frame <= t.input[2]
            /\ t.start_frame = s.start_frame - x
            /\ t.end_frame = s.end_frame - x}

\* C38: for every scene list and source key-frame set, the hybrid queue
\* contains exactly as many chunks as there are scenes, each scene [s0,s1)
\* appearing exactly once as a chunk reading the segment file that contains
\* it with range [s0-x, s1-x) relative to that segment's first frame x; no
\* scene is dropped or duplicated.
C38_HybridOneChunkPerScene ==
    (Planned /\ args.input = "Video" /\ args.task_method = "Hybrid") =>
        /\ Len(task_queue) = Len(scenes)
        /\ \A j \in 1..Len(scenes) : Cardinality(ChunksOfScene(scenes[j])) = 1

\* C39 as stated: within one call of create_pipes, progress is advanced
\* only on the final pass and only by positive differences of the parsed
\* frame counter, so the frame count returned together with a crash equals
\* exactly the sum of the advance deltas that call emitted (0 for a crash on
\* the first pass of a two-pass encode).
C39_CrashDeltaIsEmitted ==
    /\ pipes.current_pass < pipes.task.passes => pipes.emitted = 0
    /\ pipes.emitted = pipes.frame
    /\ (pipes.pc = "returned" /\ pipes.result = "Err") =>
          /\ pipes.returned = pipes.emitted
          /\ pipes.current_pass < pipes.task.passes => pipes.returned = 0

\* C39 as amended: progress is advanced only on the final pass, only with
\* the verbosity Normal or Verbose and only by positive differences of the
\* parsed frame counter; the frame count returned together with a crash is
\* the frame counter reached (0 on the first pass of a two-pass encode),
\* which is the sum of the advance deltas the call emitted when the
\* verbosity is Normal or Verbose; with Quiet nothing is emitted.
C39_CrashDeltaIsEmittedIfNotQuiet ==
    /\ pipes.current_pass < pipes.task.passes =>
          (pipes.emitted = 0 /\ pipes.frame = 0)
    /\ pipes.verbosity \in {"Normal", "Verbose"} => pipes.emitted = pipes.frame
    /\ pipes.verbosity = "Quiet" => pipes.emitted = 0
    /\ (pipes.pc = "returned" /\ pipes.result = "Err") =>
          /\ pipes.returned = pipes.frame
          /\ pipes.verbosity \in {"Normal", "Verbose"} =>
                pipes.returned = pipes.emitted
          /\ pipes.current_pass < pipes.task.passes => pipes.returned = 0

\* C39 witness: a call on the final pass, with the verbosity Normal, has
\* advanced the bar twice by one frame and has returned a crash with the
\* frame count 2.
C39_Witness ==
    /\ pipes.pc = "returned"
    /\ pipes.result = "Err"
    /\ pipes.verbosity = "Normal"
    /\ pipes.current_pass = pipes.task.passes
    /\ pipes.lines = 3
    /\ pipes.emitted = 2
    /\ pipes.returned = 2

=============================================================================
